---- MODULE Spec2Model ----
(***************************************************************************)
(* The expression DAG and the DAG-to-SQL compiler of odps.df               *)
(* (odps/df/backends/odpssql/compiler.py, odps/df/expr/expressions.py,     *)
(* odps/df/expr/element.py).                                               *)
(*                                                                         *)
(* A node of the DAG is a record [k, c]: c is the chain of relational      *)
(* operators applied to a source table (<<>> is table T, <<"S">> is table  *)
(* S) and k tells which node of that chain step it is (the collection, its *)
(* column, a literal, ...).  Two distinct nodes never have the same        *)
(* record, so record equality is object identity.  SQL text is a sequence  *)
(* of tokens; Python's None is the empty sequence.                         *)
(***************************************************************************)
EXTENDS Integers, Sequences, FiniteSets, TLC

(* ---------------- bounds and program constants ---------------- *)

MaxCalls == 2

GROUPBY_LIMIT == 10000

(* ---------------- the expression DAG (input data) ---------------- *)

None == <<>>

Last(s) == s[Len(s)]

Front(s) == SubSeq(s, 1, Len(s) - 1)

Coll(ch) == [k |-> "coll", c |-> ch]

Col(ch) == [k |-> "col", c |-> ch]

LCol(ch) == [k |-> "lcol", c |-> ch]

Lit(ch) == [k |-> "lit", c |-> ch]

StartLit(ch) == [k |-> "start", c |-> ch]

StepLit(ch) == [k |-> "step", c |-> ch]

Eq(ch) == [k |-> "eq", c |-> ch]

IsInNode(ch) == [k |-> "isin", c |-> ch]

(* the conjunction (column) & column.isin(S.c) *)
AndIn(ch) == [k |-> "andin", c |-> ch]

InProj(ch) == [k |-> "inproj", c |-> ch]

Red(ch) == [k |-> "red", c |-> ch]

(* a reduction other than the sum: var0 has ddof 0, var1 and std1 ddof 1;
   cnt counts a column, cntT counts the rows of a collection *)
RedOf(kind, ch) == [k |-> kind, c |-> ch]

TableS == Coll(<<"S">>)

IsSourceChain(ch) == ch = <<>> \/ ch = <<"S">>

SliceOps == {"slice0", "slice5", "slice9", "sliceFrom", "sliceStep"}

(* the chains a compile() call is given as its root expression *)
Roots ==
  { <<"filter">>, <<"project">>, <<"groupby">>, <<"sort">>,
    <<"slice5">>, <<"sliceFrom">>, <<"slice5", "sliceStep">>,
    <<"filter", "project">>, <<"filter", "filter">>,
    <<"project", "filter">>, <<"project", "project">>,
    <<"groupby", "filter">>, <<"groupby", "groupby">>,
    <<"sort", "sort">>, <<"sort", "filter">>,
    <<"slice5", "slice9">>, <<"slice9", "slice5">>, <<"slice5", "filter">>,
    <<"sort", "slice0", "sort">>, <<"sort", "slice5", "sort">>,
    <<"filter", "groupby", "filter">>,
    <<"join">>, <<"filter", "join">>, <<"join", "join">>,
    <<"join", "sliceFrom">>, <<"join", "sliceFrom", "join">>,
    <<"union">>, <<"unionD">>, <<"join", "unionD">>, <<"union", "filter">>,
    <<"filterIn">>, <<"join", "filterIn">>, <<"filterIn", "project">>,
    <<"join", "filterInAnd">>,
    <<"filter", "projectL">>, <<"joinJ">>,
    <<"groupbyVar0">>, <<"groupbyVar1">>, <<"groupbyStd1">>,
    <<"groupbyCnt">>, <<"groupbyCntT">> }

RECURSIVE Prefixes(_)
Prefixes(ch) == IF ch = <<>> THEN {<<>>} ELSE {ch} \cup Prefixes(Front(ch))

Chains == UNION {Prefixes(r) : r \in Roots} \cup {<<"S">>}

(* what a node is: its role in the chain step, or the step's operator *)
Tag(n) ==
  IF n.k # "coll" THEN n.k ELSE IF IsSourceChain(n.c) THEN "source" ELSE Last(n.c)

KindOf ==
  [none |-> "NoneType", col |-> "Column", lcol |-> "Column", projectL |-> "Project", lit |-> "Scalar", start |-> "Scalar", step |-> "Scalar",
   eq |-> "BinOp",
   andin |-> "BinOp", filterInAnd |-> "Filter",
   isin |-> "IsIn", inproj |-> "Project", red |-> "Reduction",
   var0 |-> "Reduction", var1 |-> "Reduction", std1 |-> "Reduction",
   cnt |-> "Reduction", cntT |-> "Reduction",
   groupbyCnt |-> "GroupBy", groupbyCntT |-> "GroupBy",
   groupbyVar0 |-> "GroupBy", groupbyVar1 |-> "GroupBy", groupbyStd1 |-> "GroupBy",
   source |-> "Source", filter |-> "Filter", filterIn |-> "Filter",
   project |-> "Project", groupby |-> "GroupBy", sort |-> "Sort",
   slice0 |-> "Slice", slice5 |-> "Slice", slice9 |-> "Slice",
   sliceFrom |-> "Slice", sliceStep |-> "Slice", join |-> "Join", joinJ |-> "Join", union |-> "Union",
   unionD |-> "Union"]

(* Python class of a node, OdpsSQLCompiler dispatches on it *)
Kind(n) == KindOf[Tag(n)]

(* a child slot: one node, a tuple of nodes, or None *)
NodeSlot(n) == [t |-> "node", v |-> <<n>>]

TupleSlot(ns) == [t |-> "tuple", v |-> ns]

NoneSlot == [t |-> "none", v |-> <<>>]

(* the collection a column is moved to by the column lifting that
   sub_sql_to_from_clause follows: filters, sorts and slices are skipped *)
RECURSIVE LiftChain(_)
LiftChain(ch) ==
  IF ~IsSourceChain(ch) /\ Last(ch) \in {"filter", "filterIn", "filterInAnd", "sort"} \cup SliceOps
  THEN LiftChain(Front(ch)) ELSE ch

(* the attributes named by _args of each class, for a node of chain ch whose
   input collection has chain up; projectL is a projection whose columns
   (lcol) were lifted, joinJ a join whose right side is the join T[T.c].join(S) *)
AttrTable(ch, up) ==
  [source |-> <<>>, lit |-> <<>>, start |-> <<>>, step |-> <<>>,
   col |-> <<NodeSlot(Coll(ch))>>,
   lcol |-> <<NodeSlot(Coll(LiftChain(ch)))>>,
   projectL |-> <<NodeSlot(Coll(up)), TupleSlot(<<LCol(up)>>)>>,
   red |-> <<NodeSlot(Col(ch))>>,
   var0 |-> <<NodeSlot(Col(ch))>>,
   var1 |-> <<NodeSlot(Col(ch))>>,
   std1 |-> <<NodeSlot(Col(ch))>>,
   cnt |-> <<NodeSlot(Col(ch))>>,
   cntT |-> <<NodeSlot(Coll(ch))>>,
   groupbyCnt |-> <<NodeSlot(Coll(up)), TupleSlot(<<Col(up)>>), NoneSlot,
                    TupleSlot(<<RedOf("cnt", up)>>), NoneSlot>>,
   groupbyCntT |-> <<NodeSlot(Coll(up)), TupleSlot(<<Col(up)>>), NoneSlot,
                     TupleSlot(<<RedOf("cntT", up)>>), NoneSlot>>,
   groupbyVar0 |-> <<NodeSlot(Coll(up)), TupleSlot(<<Col(up)>>), NoneSlot,
                     TupleSlot(<<RedOf("var0", up)>>), NoneSlot>>,
   groupbyVar1 |-> <<NodeSlot(Coll(up)), TupleSlot(<<Col(up)>>), NoneSlot,
                     TupleSlot(<<RedOf("var1", up)>>), NoneSlot>>,
   groupbyStd1 |-> <<NodeSlot(Coll(up)), TupleSlot(<<Col(up)>>), NoneSlot,
                     TupleSlot(<<RedOf("std1", up)>>), NoneSlot>>,
   eq |-> <<NodeSlot(Col(ch)), NodeSlot(Col(<<"S">>))>>,
   isin |-> <<NodeSlot(Col(ch)), TupleSlot(<<Col(<<"S">>)>>)>>,
   inproj |-> <<NodeSlot(TableS), TupleSlot(<<Col(<<"S">>)>>)>>,
   filter |-> <<NodeSlot(Coll(up)), NodeSlot(Col(up))>>,
   filterIn |-> <<NodeSlot(Coll(up)), NodeSlot(IsInNode(up))>>,
   filterInAnd |-> <<NodeSlot(Coll(up)), NodeSlot(AndIn(up))>>,
   andin |-> <<NodeSlot(Col(ch)), NodeSlot(IsInNode(ch))>>,
   project |-> <<NodeSlot(Coll(up)), TupleSlot(<<Col(up)>>)>>,
   groupby |-> <<NodeSlot(Coll(up)), TupleSlot(<<Col(up)>>), NoneSlot,
                 TupleSlot(<<Red(up)>>), NoneSlot>>,
   sort |-> <<NodeSlot(Coll(up)), TupleSlot(<<Col(up)>>)>>,
   slice0 |-> <<NodeSlot(Coll(up)), TupleSlot(<<Lit(ch)>>)>>,
   slice5 |-> <<NodeSlot(Coll(up)), TupleSlot(<<Lit(ch)>>)>>,
   slice9 |-> <<NodeSlot(Coll(up)), TupleSlot(<<Lit(ch)>>)>>,
   sliceFrom |-> <<NodeSlot(Coll(up)), TupleSlot(<<StartLit(ch), Lit(ch)>>)>>,
   sliceStep |-> <<NodeSlot(Coll(up)), TupleSlot(<<Lit(ch), StepLit(ch)>>)>>,
   join |-> <<NodeSlot(Coll(up)), NodeSlot(TableS), NodeSlot(Eq(up))>>,
   joinJ |-> <<NodeSlot(Coll(up)), NodeSlot(Coll(<<"filter", "join">>)),
               NodeSlot(Eq(up))>>,
   union |-> <<NodeSlot(Coll(up)), NodeSlot(TableS)>>,
   unionD |-> <<NodeSlot(Coll(up)), NodeSlot(TableS)>>]

(* the attributes named by _args, as stored on the node *)
Attrs(n) == AttrTable(n.c, Front(n.c))[Tag(n)]

(* SliceCollectionExpr._indexes: (start, stop, step), None as <<>> *)
SliceIndexes(n) ==
  CASE Last(n.c) = "slice0" -> <<None, <<0>>, None>>
    [] Last(n.c) = "slice5" -> <<None, <<5>>, None>>
    [] Last(n.c) = "slice9" -> <<None, <<9>>, None>>
    [] Last(n.c) = "sliceFrom" -> <<<<1>>, <<5>>, None>>
    [] Last(n.c) = "sliceStep" -> <<None, <<5>>, <<2>>>>

UnionDistinct(n) == Last(n.c) = "unionD"

SpecialNodes ==
  {Coll(ch) : ch \in {x \in Chains : ~IsSourceChain(x)
                                       /\ Last(x) \in {"join", "joinJ", "union", "unionD"}}}
  \cup {IsInNode(Front(ch)) : ch \in {x \in Chains : ~IsSourceChain(x)
                                                       /\ Last(x) \in {"filterIn", "filterInAnd"}}}

(* ---------------- state ---------------- *)

VARIABLES
  clause,        \* OdpsSQLCompiler: the seven clause slots and the limit
  sub_compiles,  \* OdpsSQLCompiler._sub_compiles: node -> list of branch texts
  sub_default,   \* TRUE while _sub_compiles is a defaultdict
  callbacks,     \* OdpsSQLCompiler._callbacks
  alias,         \* context: collection -> alias
  aliasIndex,    \* context: number of the next alias
  compiled,      \* context: node -> rendered fragment
  cached,        \* DAG: node -> _cached_args (absent: None)
  stack,         \* call stack of _compile / _compile_*_node frames
  trs,           \* the traversed sets alive, frames refer to them by index
  ret,           \* value returned by the last _compile frame
  phase,         \* "idle", "run" or "cleanup"
  err,           \* exception in flight ("" if none)
  calls,         \* number of compile() calls made
  fresh,         \* TRUE until compile() is first called on this compiler
  cur,           \* the running (or last) compile() call
  prev,          \* the compile() call before it
  last,          \* the last renderer that ran, with the slots it found
  nodes,         \* the typed expressions built so far, by object identity
  op,            \* the last rename / astype call and what it returned
  other,         \* the compiler and call of the suspended one of two threads
  execution,     \* Expr.__execution, and the engine calls made for the expression
  resultFrame    \* a ResultFrame: _values, _cursor, and the loop reading it

vars == <<clause, sub_compiles, sub_default, callbacks, alias, aliasIndex,
          compiled, cached, stack, trs, ret, phase, err, calls, fresh, cur,
          prev, last, nodes, op, other, execution, resultFrame>>

exprVars == <<nodes, op, other, execution, resultFrame>>

(* ---------------- node model: argument access ---------------- *)

CachedArgs(n) == IF n \in DOMAIN cached THEN cached[n] ELSE None

(* Node.args: the override when there is one, else the stored attributes *)
Args(n) == IF CachedArgs(n) # None THEN CachedArgs(n) ELSE Attrs(n)

(* Expr._get_arg raises IndexError when the override is too short *)
GetArgFails(n, i) == CachedArgs(n) # None /\ i > Len(CachedArgs(n))

GetArg(n, i) == IF CachedArgs(n) # None THEN CachedArgs(n)[i] ELSE Attrs(n)[i]

AllNone(slots) == \A i \in 1..Len(slots) : slots[i].t = "none"

(* mutant: the override has one slot *)
HiddenArgsOneSlot(n) == <<NoneSlot>>

HiddenArgs(n) == [i \in 1..Len(Args(n)) |-> NoneSlot]

RECURSIVE Flatten(_)
Flatten(slots) ==
  IF slots = <<>> THEN <<>> ELSE Head(slots).v \o Flatten(Tail(slots))

(* Node.children(): the args, tuples flattened, None dropped *)
Children(n) == Flatten(Args(n))

Range(s) == {s[i] : i \in 1..Len(s)}

RECURSIVE Dedup(_, _)
Dedup(s, seen) ==
  IF s = <<>> THEN <<>>
  ELSE IF Head(s) \in seen THEN Dedup(Tail(s), seen)
  ELSE <<Head(s)>> \o Dedup(Tail(s), seen \cup {Head(s)})

(* Node.traverse(): bottom-up, children before the node *)
RECURSIVE PostOrder(_)
RECURSIVE PostOrderAll(_)
PostOrderAll(ns) ==
  IF ns = <<>> THEN <<>> ELSE PostOrder(Head(ns)) \o PostOrderAll(Tail(ns))

PostOrder(n) == PostOrderAll(Children(n)) \o <<n>>

Traverse(n) == Dedup(PostOrder(n), {})

(* ---------------- root discovery ---------------- *)

(* _need_recursive_handle_in_expr; node.values is read through _get_arg *)
NeedInFails(n) == Kind(n) = "IsIn" /\ ~AllNone(Args(n)) /\ GetArgFails(n, 2)

NeedIn(n) == Kind(n) = "IsIn" /\ ~AllNone(Args(n)) /\ Kind(GetArg(n, 2).v[1]) = "Column"

(* mutant: a union is not taken as a root *)
IsRootLikeJoinOnly(n) == Kind(n) = "Join" /\ ~AllNone(Args(n))

IsRootLike(n) == Kind(n) \in {"Join", "Union"} /\ ~AllNone(Args(n))

SelectIns(ns) == SelectSeq(ns, NeedIn)

(* _retrieve_until_find_root, run up to its next yield.  g.q is the deque of
   the top-down traverse, g.seen its identity set, g.curr the node whose
   children are still to be pushed, g.pend the rest of ins. *)
RECURSIVE GenAdvance(_)
GenAdvance(g) ==
  IF g.pend # <<>>
  THEN [g EXCEPT !.yield = <<Head(g.pend)>>, !.pend = Tail(g.pend)]
  ELSE
    LET kids == IF g.curr = <<>> THEN <<>> ELSE Dedup(Children(g.curr[1]), g.seen)
        q1 == kids \o g.q
        seen1 == g.seen \cup Range(kids)
    IN IF q1 = <<>>
       THEN [g EXCEPT !.yield = <<>>, !.q = <<>>, !.seen = seen1, !.curr = <<>>, !.done = TRUE]
       ELSE
         LET node == Head(q1)
             g1 == [g EXCEPT !.q = Tail(q1), !.seen = seen1, !.curr = <<node>>]
         IN IF IsRootLike(node) THEN [g1 EXCEPT !.yield = <<node>>]
            ELSE IF \E c \in Range(Children(node)) : NeedInFails(c)
            THEN [g1 EXCEPT !.fail = TRUE]
            ELSE LET ins == SelectIns(Children(node))
                 IN IF ins # <<>>
                    THEN [g1 EXCEPT !.yield = <<Head(ins)>>, !.pend = Tail(ins)]
                    ELSE GenAdvance(g1)

NewGen(expr) ==
  [q |-> <<expr>>, seen |-> {expr}, curr |-> <<>>, pend |-> <<>>,
   yield |-> <<>>, done |-> FALSE, fail |-> FALSE]

(* ---------------- clause slots ---------------- *)

(* mutant: the limit survives the reset *)
ReInitKeepsLimit ==
  [select_clause |-> None, from_clause |-> None, where_clause |-> None,
   group_by_clause |-> None, having_clause |-> None, order_by_clause |-> None,
   limit |-> <<5>>, join_predicates |-> None]

ReInit ==
  [select_clause |-> None, from_clause |-> None, where_clause |-> None,
   group_by_clause |-> None, having_clause |-> None, order_by_clause |-> None,
   limit |-> None, join_predicates |-> None]

(* not self._limit: None and 0 are both false *)
LimitFalsy(l) == l = None \/ l[1] = 0

(* mutant: no default limit *)
ToSqlLimitExplicit(cl) == cl.limit

ToSqlLimit(cl) ==
  IF cl.order_by_clause # None /\ LimitFalsy(cl.limit) THEN <<GROUPBY_LIMIT>>
  ELSE cl.limit

(* mutant: HAVING is written whenever the having slot is set *)
ToSqlHavingAlone(cl) ==
  <<"SELECT">> \o (IF cl.select_clause # None THEN cl.select_clause ELSE <<"*">>)
  \o <<"FROM">> \o (IF cl.from_clause # None THEN cl.from_clause ELSE <<"None">>)
  \o (IF cl.join_predicates # None THEN <<"ON">> \o cl.join_predicates ELSE <<>>)
  \o (IF cl.where_clause # None THEN <<"WHERE">> \o cl.where_clause ELSE <<>>)
  \o (IF cl.group_by_clause # None THEN <<"GROUP BY">> \o cl.group_by_clause ELSE <<>>)
  \o (IF cl.having_clause # None THEN <<"HAVING">> \o cl.having_clause ELSE <<>>)
  \o (IF cl.order_by_clause # None THEN <<"ORDER BY">> \o cl.order_by_clause
      ELSE <<>>)
  \o (IF ToSqlLimit(cl) # None THEN <<"LIMIT", ToString(ToSqlLimit(cl)[1])>>
      ELSE <<>>)

(* the text to_sql returns; the callers reset the slots as to_sql does *)
ToSql(cl) ==
  <<"SELECT">> \o (IF cl.select_clause # None THEN cl.select_clause ELSE <<"*">>)
  \o <<"FROM">> \o (IF cl.from_clause # None THEN cl.from_clause ELSE <<"None">>)
  \o (IF cl.join_predicates # None THEN <<"ON">> \o cl.join_predicates ELSE <<>>)
  \o (IF cl.where_clause # None THEN <<"WHERE">> \o cl.where_clause ELSE <<>>)
  \o (IF cl.group_by_clause # None
      THEN <<"GROUP BY">> \o cl.group_by_clause
           \o (IF cl.having_clause # None THEN <<"HAVING">> \o cl.having_clause
               ELSE <<>>)
      ELSE <<>>)
  \o (IF cl.order_by_clause # None THEN <<"ORDER BY">> \o cl.order_by_clause
      ELSE <<>>)
  \o (IF ToSqlLimit(cl) # None THEN <<"LIMIT", ToString(ToSqlLimit(cl)[1])>>
      ELSE <<>>)

(* ---------------- compilation context ---------------- *)

AliasName(i) == "t" \o ToString(i)

(* mutant: a lookup never reuses the alias of a collection *)
GetCollectionAliasNew(m, key) ==
  [m EXCEPT !.alias = (key :> AliasName(m.idx)) @@ m.alias, !.idx = m.idx + 1]

(* get_collection_alias(key, create=True) / register_collection(key); the
   compiler and the context travel through the renderers as one record m *)
GetCollectionAlias(m, key) ==
  IF key \in DOMAIN m.alias THEN m
  ELSE [m EXCEPT !.alias = (key :> AliasName(m.idx)) @@ m.alias, !.idx = m.idx + 1]

AddExprCompiled(m, n, text) ==
  [m EXCEPT !.compiled = (n :> text) @@ m.compiled]

(* ---------------- clause accumulation ---------------- *)

Input(n) == GetArg(n, 1).v[1]

(* Python's None where a node is expected: what a hidden slot reads as *)
NoneNode == [k |-> "none", c |-> <<>>]

(* expr.lhs, expr.rhs, expr.predicate: the slot's node, None when hidden *)
ArgNode(n, i) == IF GetArg(n, i).t = "none" THEN NoneNode ELSE GetArg(n, i).v[1]

RECURSIVE Lift(_)
Lift(expr) ==
  IF Kind(expr) \in {"Slice", "Sort", "Filter"} THEN Lift(Input(expr)) ELSE expr

Derived(sql, al) == <<"(">> \o sql \o <<")", al>>

(* mutant: the alias is taken for the promoted expression itself, filters,
   sorts and slices are not skipped *)
SubSqlToFromClauseNoLift(m, expr) ==
  LET sql == ToSql(m.cl)
      target == expr
      m1 == GetCollectionAlias(m, target)
  IN [m1 EXCEPT !.cl = [ReInit EXCEPT !.from_clause = Derived(sql, m1.alias[target])],
                !.promos = @ + 1]

SubSqlToFromClause(m, expr) ==
  LET sql == ToSql(m.cl)
      target == Lift(expr)
      m1 == GetCollectionAlias(m, target)
  IN [m1 EXCEPT !.cl = [ReInit EXCEPT !.from_clause = Derived(sql, m1.alias[target])],
                !.promos = @ + 1]

(* mutant: the select slot is overwritten without promotion *)
AddSelectClauseOverwrite(m, expr, text) == [m EXCEPT !.cl.select_clause = text]

(* mutant: a level that carries a WHERE is promoted too *)
AddSelectClauseAlways(m, expr, text) ==
  LET m1 == IF m.cl.select_clause # None \/ m.cl.where_clause # None
            THEN SubSqlToFromClause(m, Input(expr)) ELSE m
  IN [m1 EXCEPT !.cl.select_clause = text]

AddSelectClause(m, expr, text) ==
  LET m1 == IF m.cl.select_clause # None THEN SubSqlToFromClause(m, Input(expr))
            ELSE m
  IN [m1 EXCEPT !.cl.select_clause = text]

(* mutant: the from-clause is overwritten *)
AddFromClauseOverwrite(m, expr, text) == [m EXCEPT !.cl.from_clause = text]

AddFromClause(m, expr, text) ==
  IF m.cl.from_clause = None THEN [m EXCEPT !.cl.from_clause = text] ELSE m

AddWhereClause(m, expr, text) ==
  LET m1 == IF m.cl.where_clause # None THEN SubSqlToFromClause(m, expr) ELSE m
  IN [m1 EXCEPT !.cl.where_clause = text]

AddGroupByClause(m, expr, text) ==
  LET m1 == IF m.cl.group_by_clause # None THEN SubSqlToFromClause(m, expr) ELSE m
  IN [m1 EXCEPT !.cl.group_by_clause = text]

(* mutant: the second value replaces the first *)
AddHavingClauseOverwrite(m, expr, text) == [m EXCEPT !.cl.having_clause = text]

AddHavingClause(m, expr, text) ==
  LET m1 == IF m.cl.having_clause = None THEN [m EXCEPT !.cl.having_clause = text]
            ELSE m
  IN IF text = m1.cl.having_clause THEN m1 ELSE [m1 EXCEPT !.err = "AssertionError"]

AddOrderByClause(m, expr, text) ==
  LET m1 == IF m.cl.order_by_clause # None THEN SubSqlToFromClause(m, expr) ELSE m
  IN [m1 EXCEPT !.cl.order_by_clause = text]

SetLimit(m, limit) == [m EXCEPT !.cl.limit = limit]

(* ---------------- node renderers ---------------- *)

SourceName(n) == IF n.c = <<>> THEN "p.T" ELSE "p.S"

(* node_name of the reduction classes, and the function text of each *)
RedName ==
  [red |-> "sum", var0 |-> "var", var1 |-> "var", std1 |-> "std",
   cnt |-> "count", cntT |-> "count"]

RedFunc ==
  [red |-> "SUM(", var0 |-> "VAR(", var1 |-> "VAR(", std1 |-> "STDDEV(",
   cnt |-> "COUNT(", cntT |-> "COUNT("]

(* isinstance(expr, (Count, GroupedCount)) and
   isinstance(expr.input, CollectionExpr) *)
CountsRows(n) == n.k \in {"cnt", "cntT"} /\ Input(n).k \in {"coll", "inproj"}

Ddof(n) == IF n.k \in {"var1", "std1"} THEN 1 ELSE 0

FieldName(n) == IF Kind(n) = "Reduction" THEN "c_" \o RedName[n.k] ELSE "c"

VisitSourceCollection(m, n) ==
  LET m1 == GetCollectionAlias(m, n)
      from_clause == <<SourceName(n), m1.alias[n]>>
  IN AddExprCompiled(AddFromClause(m1, n, from_clause), n, from_clause)

VisitColumn(m, n) ==
  LET collection == Input(n)
      m1 == GetCollectionAlias(m, collection)
  IN AddExprCompiled(m1, n, <<m1.alias[collection] \o ".c">>)

ScalarValue(n) ==
  SliceIndexes(Coll(n.c))[CASE n.k = "start" -> 1 [] n.k = "lit" -> 2
                            [] n.k = "step" -> 3][1]

VisitScalar(m, n) == AddExprCompiled(m, n, <<ToString(ScalarValue(n))>>)

(* BINARY_OP_COMPILE_DIC[expr.node_name].upper() *)
BinaryOpText(n) == IF n.k = "andin" THEN "AND" ELSE "=="

VisitBinaryOp(m, n) ==
  LET lhs == Args(n)[1].v[1]
      rhs == Args(n)[2].v[1]
  IN AddExprCompiled(m, n, m.compiled[lhs] \o <<BinaryOpText(n)>> \o m.compiled[rhs])

(* mutant: ddof is not looked at *)
VisitReductionAnyDdof(m, n) ==
  IF CountsRows(n) THEN AddExprCompiled(m, n, <<"COUNT(1)">>)
  ELSE AddExprCompiled(m, n, <<RedFunc[n.k]>> \o m.compiled[Args(n)[1].v[1]] \o <<")">>)

(* mutant: every count is a row count *)
VisitReductionCountOne(m, n) ==
  IF n.k \in {"cnt", "cntT"} THEN AddExprCompiled(m, n, <<"COUNT(1)">>)
  ELSE IF n.k \in {"var0", "var1", "std1"} /\ Ddof(n) # 0
  THEN [m EXCEPT !.err = "CompileError"]
  ELSE AddExprCompiled(m, n, <<RedFunc[n.k]>> \o m.compiled[Args(n)[1].v[1]] \o <<")">>)

VisitReduction(m, n) ==
  IF CountsRows(n) THEN AddExprCompiled(m, n, <<"COUNT(1)">>)
  ELSE IF n.k \in {"var0", "var1", "std1"} /\ Ddof(n) # 0
  THEN [m EXCEPT !.err = "CompileError"]
  ELSE AddExprCompiled(m, n, <<RedFunc[n.k]>> \o m.compiled[Args(n)[1].v[1]] \o <<")">>)

CompileSelectField(m, field) ==
  IF Kind(field) # "Column" THEN m.compiled[field] \o <<"AS", FieldName(field)>>
  ELSE m.compiled[field]

RECURSIVE JoinCompiledFields(_)
JoinCompiledFields(fields) ==
  IF Len(fields) = 0 THEN <<>>
  ELSE IF Len(fields) = 1 THEN fields[1]
  ELSE fields[1] \o <<",">> \o JoinCompiledFields(Tail(fields))

SelectFields(m, fields) ==
  JoinCompiledFields([i \in 1..Len(fields) |-> CompileSelectField(m, fields[i])])

PlainFields(m, fields) ==
  JoinCompiledFields([i \in 1..Len(fields) |-> m.compiled[fields[i]]])

VisitProjectCollection(m, n) ==
  LET text == SelectFields(m, Tail(Children(n)))
  IN AddSelectClause(AddExprCompiled(m, n, text), n, text)

(* mutant: no promotion ahead of add_where_clause *)
VisitFilterCollectionFlat(m, n) ==
  LET text == m.compiled[Args(n)[2].v[1]]
  IN AddWhereClause(AddExprCompiled(m, n, text), n, text)

VisitFilterCollection(m, n) ==
  LET predicate == Args(n)[2].v[1]
      text == m.compiled[predicate]
      m1 == IF m.cl.group_by_clause # None \/ Kind(Input(n)) = "Project"
            THEN SubSqlToFromClause(m, Input(n)) ELSE m
  IN AddWhereClause(AddExprCompiled(m1, n, text), n, text)

(* mutant: the limit is written before the indexes are tested *)
VisitSliceCollectionLimitFirst(m, n) ==
  LET sliced == SliceIndexes(n)
      m1 == SetLimit(m, sliced[2])
  IN IF sliced[1] # None \/ sliced[3] # None
     THEN [m1 EXCEPT !.err = "NotImplementedError"]
     ELSE m1

VisitSliceCollection(m, n) ==
  LET sliced == SliceIndexes(n)
  IN IF sliced[1] # None \/ sliced[3] # None
     THEN [m EXCEPT !.err = "NotImplementedError"]
     ELSE SetLimit(m, sliced[2])

VisitGroupBy(m, n) ==
  LET bys == Args(n)[2].v
      having == Args(n)[3].v
      aggs == Args(n)[4].v
      fields == IF Args(n)[5].t = "none" THEN bys \o aggs ELSE Args(n)[5].v
      group_by_clause == PlainFields(m, bys)
      select_clause == SelectFields(m, fields)
      m1 == AddGroupByClause(AddSelectClause(m, n, select_clause), n, group_by_clause)
  IN IF having # <<>> THEN AddHavingClause(m1, n, m1.compiled[having[1]]) ELSE m1

VisitSort(m, n) == AddOrderByClause(m, n, PlainFields(m, Args(n)[2].v))

(* self._sub_compiles[expr]: a defaultdict creates the entry on a read *)
SubsMissing(m, n) == n \notin DOMAIN m.subs /\ ~m.subdef

TouchSubs(m, n) ==
  IF n \in DOMAIN m.subs THEN m ELSE [m EXCEPT !.subs = (n :> <<>>) @@ m.subs]

AppendSub(m, n, text) ==
  IF SubsMissing(m, n) THEN [m EXCEPT !.err = "KeyError"]
  ELSE LET m1 == TouchSubs(m, n)
       IN [m1 EXCEPT !.subs = [m1.subs EXCEPT ![n] = Append(@, text)]]

VisitElementOp(m, n) ==
  IF GetArgFails(n, 2) THEN [m EXCEPT !.err = "IndexError"]
  ELSE IF GetArg(n, 2).t # "none"
  THEN AddExprCompiled(m, n, m.compiled[Input(n)] \o <<"IN", "(">>
                             \o PlainFields(m, GetArg(n, 2).v) \o <<")">>)
  ELSE IF SubsMissing(m, n) THEN [m EXCEPT !.err = "KeyError"]
  ELSE LET m1 == TouchSubs(m, n)
           subs == m1.subs[n]
       IN IF Len(subs) < 2 THEN [m1 EXCEPT !.err = "IndexError"]
          ELSE AddExprCompiled(m1, n, subs[1] \o <<"IN", "(">> \o subs[2] \o <<")">>)

(* mutant: a join whose stash is incomplete renders as an empty fragment *)
VisitJoinLenient(m, n) ==
  IF SubsMissing(m, n) THEN [m EXCEPT !.err = "KeyError"]
  ELSE LET m1 == TouchSubs(m, n)
           subs == m1.subs[n]
       IN IF Len(subs) # 3 THEN AddExprCompiled(m1, n, <<>>)
          ELSE LET from_clause == subs[1] \o <<"INNER", "JOIN">> \o subs[2]
                                  \o <<"ON">> \o subs[3]
               IN AddExprCompiled(AddFromClause(m1, n, from_clause), n, from_clause)

VisitJoin(m, n) ==
  IF SubsMissing(m, n) THEN [m EXCEPT !.err = "KeyError"]
  ELSE LET m1 == TouchSubs(m, n)
           subs == m1.subs[n]
       IN IF Len(subs) # 3 THEN [m1 EXCEPT !.err = "ValueError"]
          ELSE LET from_clause == subs[1] \o <<"INNER", "JOIN">> \o subs[2]
                                  \o <<"ON">> \o subs[3]
               IN AddExprCompiled(AddFromClause(m1, n, from_clause), n, from_clause)

(* the alias is looked up under the union text, not under the union node *)
TextKey(m) == [k |-> "text", c |-> <<ToString(m.idx)>>]

VisitUnion(m, n) ==
  IF UnionDistinct(n) THEN [m EXCEPT !.err = "CompileError"]
  ELSE IF SubsMissing(m, n) THEN [m EXCEPT !.err = "KeyError"]
  ELSE LET m1 == TouchSubs(m, n)
           subs == m1.subs[n]
       IN IF Len(subs) # 2 THEN [m1 EXCEPT !.err = "ValueError"]
          ELSE LET from_clause == subs[1] \o <<"UNION ALL">> \o subs[2]
                   key == TextKey(m1)
                   m2 == GetCollectionAlias(m1, key)
                   text == Derived(from_clause, m2.alias[key])
               IN AddExprCompiled(AddFromClause(m2, n, text), n, text)

(* the fragments a renderer reads from the context; reading one that was
   never written is a KeyError *)
Reads(n) ==
  CASE Kind(n) = "BinOp" -> Range(Children(n))
    [] Kind(n) = "Reduction" -> IF CountsRows(n) THEN {} ELSE Range(Children(n))
    [] Kind(n) \in {"Project", "Sort"} -> Range(Tail(Children(n)))
    [] Kind(n) = "GroupBy" -> Range(Tail(Children(n)))
    [] Kind(n) = "Filter" -> {Args(n)[2].v[1]}
    [] Kind(n) = "IsIn" -> IF AllNone(Args(n)) THEN {} ELSE Range(Children(n))
    [] OTHER -> {}

(* node.accept(self) *)
Accept(m, n) ==
  IF Kind(n) = "IsIn" /\ GetArgFails(n, 2) THEN [m EXCEPT !.err = "IndexError"]
  ELSE IF ~(Reads(n) \subseteq DOMAIN m.compiled) THEN [m EXCEPT !.err = "KeyError"]
  ELSE CASE Kind(n) = "Source" -> VisitSourceCollection(m, n)
         [] Kind(n) = "Column" -> VisitColumn(m, n)
         [] Kind(n) = "Scalar" -> VisitScalar(m, n)
         [] Kind(n) = "BinOp" -> VisitBinaryOp(m, n)
         [] Kind(n) = "Reduction" -> VisitReduction(m, n)
         [] Kind(n) = "Project" -> VisitProjectCollection(m, n)
         [] Kind(n) = "Filter" -> VisitFilterCollection(m, n)
         [] Kind(n) = "Slice" -> VisitSliceCollection(m, n)
         [] Kind(n) = "GroupBy" -> VisitGroupBy(m, n)
         [] Kind(n) = "Sort" -> VisitSort(m, n)
         [] Kind(n) = "IsIn" -> VisitElementOp(m, n)
         [] Kind(n) = "Join" -> VisitJoin(m, n)
         [] Kind(n) = "Union" -> VisitUnion(m, n)

(* ---------------- the compile() state machine ---------------- *)

NoCall ==
  [root |-> <<"-">>, fresh |-> FALSE, clean |-> FALSE, out |-> "", sql |-> <<>>,
   exc |-> ""]

NoOp == [kind |-> "", recv |-> 0, arg |-> "", result |-> 0, pre |-> <<>>]

NoVisit == [kind |-> "", node |-> <<>>, pre |-> ReInit, promos |-> 0, again |-> FALSE]

(* a thread that has built its compiler and context and not called compile() *)
NewThread ==
  [clause |-> ReInit, sub_compiles |-> <<>>, sub_default |-> TRUE, callbacks |-> <<>>,
   alias |-> <<>>, aliasIndex |-> 1, compiled |-> <<>>, stack |-> <<>>, trs |-> <<>>,
   ret |-> <<>>, phase |-> "idle", err |-> "", calls |-> 0, fresh |-> TRUE,
   cur |-> NoCall, prev |-> NoCall, last |-> NoVisit]

NoThread == [st |-> NewThread, switches |-> 0]

(* no ResultFrame has been built *)
NoFrame == [values |-> <<>>, cursor |-> -1, loop |-> "", out |-> <<>>, row |-> <<>>,
            nexts |-> 0, loops |-> 0]

(* Expr.__init__: self.__execution = None; nothing has been executed *)
NoExecution ==
  [stored |-> None, runs |-> 0, use_cache |-> FALSE, pre |-> None, returned |-> None]

Init ==
  /\ clause = ReInit
  /\ sub_compiles = <<>>
  /\ sub_default = TRUE
  /\ callbacks = <<>>
  /\ alias = <<>>
  /\ aliasIndex = 1
  /\ compiled = <<>>
  /\ cached = <<>>
  /\ stack = <<>>
  /\ trs = <<>>
  /\ ret = <<>>
  /\ phase = "idle"
  /\ err = ""
  /\ calls = 0
  /\ fresh = TRUE
  /\ cur = NoCall
  /\ prev = NoCall
  /\ last = NoVisit
  /\ nodes = <<>>
  /\ op = NoOp
  /\ other = NoThread
  /\ execution = NoExecution
  /\ resultFrame = NoFrame

(* the compiler and its context as one record, for the renderers *)
M0 ==
  [cl |-> clause, subs |-> sub_compiles, subdef |-> sub_default, alias |-> alias,
   idx |-> aliasIndex, compiled |-> compiled, err |-> "", promos |-> 0]

Store(m) ==
  /\ clause' = m.cl
  /\ sub_compiles' = m.subs
  /\ alias' = m.alias
  /\ aliasIndex' = m.idx
  /\ compiled' = m.compiled

Top == stack[Len(stack)]

SetTop(f) == [stack EXCEPT ![Len(stack)] = f]

Frame(type, expr, pc, tr, owns) ==
  [type |-> type, expr |-> expr, pc |-> pc, gen |-> NewGen(expr), list |-> <<>>,
   tr |-> tr, owns |-> owns]

(* an exception unwinds every frame up to the finally of compile() *)
Raise(e) ==
  /\ stack' = <<>>
  /\ trs' = <<>>
  /\ err' = e
  /\ phase' = "cleanup"

(* OdpsSQLCompiler.__init__ with a new context *)
NewCompiler ==
  /\ phase = "idle"
  /\ ~fresh
  /\ clause' = ReInit
  /\ sub_compiles' = <<>>
  /\ sub_default' = TRUE
  /\ callbacks' = <<>>
  /\ alias' = <<>>
  /\ aliasIndex' = 1
  /\ compiled' = <<>>
  /\ fresh' = TRUE
  /\ last' = NoVisit
  /\ UNCHANGED <<cached, stack, trs, ret, phase, err, calls, cur, prev>>
  /\ UNCHANGED exprVars

(* compile(expr) is entered: _compile(expr) with a new traversed set *)
Compile(r) ==
  /\ phase = "idle"
  /\ calls < MaxCalls
  /\ calls' = calls + 1
  /\ prev' = cur
  /\ cur' = [root |-> r, fresh |-> fresh, clean |-> clause = ReInit, out |-> "",
             sql |-> <<>>, exc |-> ""]
  /\ fresh' = FALSE
  /\ stack' = <<Frame("compile", Coll(r), "roots", 1, TRUE)>>
  /\ trs' = <<{}>>
  /\ phase' = "run"
  /\ last' = NoVisit
  /\ UNCHANGED <<clause, sub_compiles, sub_default, callbacks, alias, aliasIndex,
                 compiled, cached, ret, err>>
  /\ UNCHANGED exprVars

SpecialType(n) ==
  CASE Kind(n) = "Join" -> "join" [] Kind(n) = "Union" -> "union" [] Kind(n) = "IsIn" -> "in"

(* _compile: `for root in roots`, up to the call of _compile_*_node *)
FindRoot ==
  /\ phase = "run"
  /\ Top.type = "compile" /\ Top.pc = "roots"
  /\ LET g == GenAdvance([Top.gen EXCEPT !.yield = <<>>])
     IN IF Top.expr = NoneNode THEN Raise("AttributeError")
        ELSE IF g.fail THEN Raise("IndexError")
        ELSE /\ err' = err /\ phase' = phase /\ trs' = trs
             /\ IF g.done
                THEN stack' = SetTop([Top EXCEPT !.gen = g, !.pc = "traverse",
                                                 !.list = Traverse(Top.expr)])
                ELSE stack' = Append(SetTop([Top EXCEPT !.gen = g, !.pc = "accept"]),
                                     Frame(SpecialType(g.yield[1]), g.yield[1], "lhs",
                                           Top.tr, FALSE))
  /\ last' = NoVisit
  /\ UNCHANGED <<clause, sub_compiles, sub_default, callbacks, alias, aliasIndex,
                 compiled, cached, ret, calls, fresh, cur, prev>>
  /\ UNCHANGED exprVars

PushCompile(f, expr, shared) ==
  IF shared
  THEN /\ stack' = Append(SetTop(f), Frame("compile", expr, "roots", f.tr, FALSE))
       /\ trs' = trs
  ELSE /\ stack' = Append(SetTop(f), Frame("compile", expr, "roots", Len(trs) + 1, TRUE))
       /\ trs' = Append(trs, {})

(* _compile_join_node / _compile_union_node: self._compile(expr.lhs);
   _compile_in_node: self._compile(expr.input) *)
CompileFirstBranch ==
  /\ phase = "run"
  /\ Top.type \in {"join", "union", "in"} /\ Top.pc = "lhs"
  /\ PushCompile([Top EXCEPT !.pc = "lhs_ret"], ArgNode(Top.expr, 1), FALSE)
  /\ last' = NoVisit
  /\ UNCHANGED <<clause, sub_compiles, sub_default, callbacks, alias, aliasIndex,
                 compiled, cached, ret, phase, err, calls, fresh, cur, prev>>
  /\ UNCHANGED exprVars

(* mutant: a join counts as a source table *)
IsSourceTableOrJoin(n) == Kind(n) \in {"Source", "Join"}

IsSourceTable(n) == Kind(n) = "Source"

(* the text _compile_join_node stashes for one side *)
JoinSide(m, side, bare) ==
  IF SubsMissing(m, Top.expr) THEN [m EXCEPT !.err = "KeyError"]
  ELSE IF bare
  THEN IF side \in DOMAIN m.compiled THEN AppendSub(m, Top.expr, m.compiled[side])
       ELSE [m EXCEPT !.err = "KeyError"]
  ELSE LET m1 == GetCollectionAlias(m, side)
       IN AppendSub(m1, Top.expr, Derived(ret, m1.alias[side]))

(* the statements between the return of the first _compile and the call of
   the second *)
StashFirstBranch ==
  /\ phase = "run"
  /\ Top.type \in {"join", "union", "in"} /\ Top.pc = "lhs_ret"
  /\ LET e == Top.expr
         lhs == ArgNode(e, 1)
         m == CASE Top.type = "join" ->
                     JoinSide(M0, lhs, IsSourceTable(lhs) \/ Kind(lhs) = "Join")
                [] Top.type = "union" -> AppendSub(M0, e, ret)
                [] Top.type = "in" ->
                     IF lhs \in DOMAIN compiled THEN AppendSub(M0, e, compiled[lhs])
                     ELSE [M0 EXCEPT !.err = "KeyError"]
         second == IF Top.type = "in" THEN InProj(e.c) ELSE ArgNode(e, 2)
     IN /\ Store(m)
        /\ IF m.err # "" THEN Raise(m.err)
           ELSE /\ PushCompile([Top EXCEPT !.pc = "rhs_ret"], second, FALSE)
                /\ UNCHANGED <<phase, err>>
  /\ last' = NoVisit
  /\ UNCHANGED <<sub_default, callbacks, cached, ret, calls, fresh, cur, prev>>
  /\ UNCHANGED exprVars

(* the statements after the return of the second _compile; for a join they
   end with self._compile(expr.predicate, traversed) *)
StashSecondBranch ==
  /\ phase = "run"
  /\ Top.type \in {"join", "union", "in"} /\ Top.pc = "rhs_ret"
  /\ LET e == Top.expr
         rhs == ArgNode(e, 2)
         m == IF Top.type = "join" THEN JoinSide(M0, rhs, IsSourceTable(rhs))
              ELSE AppendSub(M0, e, ret)
     IN /\ Store(m)
        /\ IF m.err # "" THEN Raise(m.err)
           ELSE /\ IF Top.type = "join"
                   THEN PushCompile([Top EXCEPT !.pc = "pred_ret"], ArgNode(e, 3), TRUE)
                   ELSE stack' = SetTop([Top EXCEPT !.pc = "callback"]) /\ trs' = trs
                /\ UNCHANGED <<phase, err>>
  /\ last' = NoVisit
  /\ UNCHANGED <<sub_default, callbacks, cached, ret, calls, fresh, cur, prev>>
  /\ UNCHANGED exprVars

(* _compile_join_node: the predicate text is stashed *)
StashPredicate ==
  /\ phase = "run"
  /\ Top.type = "join" /\ Top.pc = "pred_ret"
  /\ LET e == Top.expr
         p == ArgNode(e, 3)
         m == IF p \in DOMAIN compiled THEN AppendSub(M0, e, compiled[p])
              ELSE [M0 EXCEPT !.err = "KeyError"]
     IN /\ Store(m)
        /\ IF m.err # "" THEN Raise(m.err)
           ELSE /\ stack' = SetTop([Top EXCEPT !.pc = "callback"])
                /\ UNCHANGED <<trs, phase, err>>
  /\ last' = NoVisit
  /\ UNCHANGED <<sub_default, callbacks, cached, ret, calls, fresh, cur, prev>>
  /\ UNCHANGED exprVars

(* mutant: the args are captured after the override is in place *)
CapturedArgsAfterHide(type, e) == HiddenArgs(e)

(* what the restoration callback of a node will write back *)
CapturedArgs(type, e) ==
  IF type = "in"
  THEN [i \in 1..Len(GetArg(e, 2).v) |-> NodeSlot(GetArg(e, 2).v[i])]
  ELSE Args(e)

(* mutant: the handler goes on to the override without queueing the callback *)
QueueCallbackSkipped ==
  /\ phase = "run"
  /\ Top.type \in {"join", "union", "in"} /\ Top.pc = "callback"
  /\ callbacks' = callbacks
  /\ stack' = SetTop([Top EXCEPT !.pc = "hide"])
  /\ last' = NoVisit
  /\ UNCHANGED <<clause, sub_compiles, sub_default, alias, aliasIndex, compiled,
                 cached, trs, ret, phase, err, calls, fresh, cur, prev>>
  /\ UNCHANGED exprVars

(* cached_args = ...; def cb(): ...; self._callbacks.append(cb) *)
QueueCallback ==
  /\ phase = "run"
  /\ Top.type \in {"join", "union", "in"} /\ Top.pc = "callback"
  /\ callbacks' = Append(callbacks, [node |-> Top.expr,
                                     args |-> CapturedArgs(Top.type, Top.expr)])
  /\ stack' = SetTop([Top EXCEPT !.pc = "hide"])
  /\ last' = NoVisit
  /\ UNCHANGED <<clause, sub_compiles, sub_default, alias, aliasIndex, compiled,
                 cached, trs, ret, phase, err, calls, fresh, cur, prev>>
  /\ UNCHANGED exprVars

(* expr._cached_args = [None] * len(expr.args), and the handler returns *)
HideChildren ==
  /\ phase = "run"
  /\ Top.type \in {"join", "union", "in"} /\ Top.pc = "hide"
  /\ cached' = (Top.expr :> HiddenArgs(Top.expr)) @@ cached
  /\ stack' = Front(stack)
  /\ last' = NoVisit
  /\ UNCHANGED <<clause, sub_compiles, sub_default, callbacks, alias, aliasIndex,
                 compiled, trs, ret, phase, err, calls, fresh, cur, prev>>
  /\ UNCHANGED exprVars

(* again: the context already held a fragment of the node *)
Visited(n, m) ==
  [kind |-> Kind(n), node |-> <<n>>, pre |-> clause, promos |-> m.promos,
   again |-> n \in DOMAIN compiled]

(* root.accept(self); traversed.add(id(root)) *)
AcceptRoot ==
  /\ phase = "run"
  /\ Top.type = "compile" /\ Top.pc = "accept"
  /\ LET root == Top.gen.yield[1]
         m == Accept(M0, root)
     IN /\ Store(m)
        /\ last' = Visited(root, m)
        /\ IF m.err # "" THEN Raise(m.err)
           ELSE /\ stack' = SetTop([Top EXCEPT !.pc = "roots"])
                /\ trs' = [trs EXCEPT ![Top.tr] = @ \cup {root}]
                /\ UNCHANGED <<phase, err>>
  /\ UNCHANGED <<sub_default, callbacks, cached, ret, calls, fresh, cur, prev>>
  /\ UNCHANGED exprVars

(* one iteration of `for node in expr.traverse()` *)
VisitNode ==
  /\ phase = "run"
  /\ Top.type = "compile" /\ Top.pc = "traverse" /\ Top.list # <<>>
  /\ LET node == Head(Top.list)
     IN IF node \in trs[Top.tr]
        THEN /\ stack' = SetTop([Top EXCEPT !.list = Tail(@)])
             /\ last' = NoVisit
             /\ UNCHANGED <<clause, sub_compiles, alias, aliasIndex, compiled, trs,
                            phase, err>>
        ELSE LET m == Accept(M0, node)
             IN /\ Store(m)
                /\ last' = Visited(node, m)
                /\ IF m.err # "" THEN Raise(m.err)
                   ELSE /\ stack' = SetTop([Top EXCEPT !.list = Tail(@)])
                        /\ trs' = [trs EXCEPT ![Top.tr] = @ \cup {node}]
                        /\ UNCHANGED <<phase, err>>
  /\ UNCHANGED <<sub_default, callbacks, cached, ret, calls, fresh, cur, prev>>
  /\ UNCHANGED exprVars

(* return self.to_sql().strip(): the text is returned and the slots reset *)
Return ==
  /\ phase = "run"
  /\ Top.type = "compile" /\ Top.pc = "traverse" /\ Top.list = <<>>
  /\ ret' = ToSql(clause)
  /\ clause' = ReInit
  /\ stack' = Front(stack)
  /\ trs' = IF Top.owns THEN Front(trs) ELSE trs
  /\ IF Len(stack) = 1
     THEN phase' = "cleanup" /\ cur' = [cur EXCEPT !.out = "sql", !.sql = ToSql(clause)]
     ELSE phase' = phase /\ cur' = cur
  /\ last' = NoVisit
  /\ UNCHANGED <<sub_compiles, sub_default, callbacks, alias, aliasIndex, compiled,
                 cached, err, calls, fresh, prev>>
  /\ UNCHANGED exprVars

RECURSIVE RunCallbacks(_, _)
RunCallbacks(cbs, ca) ==
  IF cbs = <<>> THEN ca
  ELSE RunCallbacks(Tail(cbs), (Head(cbs).node :> Head(cbs).args) @@ ca)

(* finally: self._cleanup(), then compile() returns or re-raises *)
Cleanup ==
  /\ phase = "cleanup"
  /\ sub_compiles' = <<>>
  /\ sub_default' = FALSE
  /\ cached' = RunCallbacks(callbacks, cached)
  /\ callbacks' = <<>>
  /\ phase' = "idle"
  /\ err' = ""
  /\ cur' = IF err # "" THEN [cur EXCEPT !.out = "error", !.exc = err] ELSE cur
  /\ last' = NoVisit
  /\ UNCHANGED <<clause, alias, aliasIndex, compiled, stack, trs, ret, calls, fresh,
                 prev>>
  /\ UNCHANGED exprVars

Next ==
  \/ NewCompiler
  \/ \E r \in Roots : Compile(r)
  \/ FindRoot
  \/ CompileFirstBranch
  \/ StashFirstBranch
  \/ StashSecondBranch
  \/ StashPredicate
  \/ QueueCallback
  \/ HideChildren
  \/ AcceptRoot
  \/ VisitNode
  \/ Return
  \/ Cleanup

Spec == Init /\ [][Next]_vars

(* ---------------- the clause accumulator called directly ---------------- *)

MaxSlotCalls == 2

(* the contents a level can have been given through add_*_clause and
   set_limit; join_predicates has no setter in the compiler and is drawn so
   that the ON line of to_sql is exercised *)
SlotStates ==
  [select_clause : {None, <<"sel">>}, from_clause : {None, <<"frm">>},
   where_clause : {None, <<"w">>}, group_by_clause : {None, <<"g">>},
   having_clause : {None, <<"h1">>, <<"h2">>}, order_by_clause : {None, <<"o">>},
   limit : {None, <<0>>, <<5>>}, join_predicates : {None, <<"jp">>}]

SlotInit ==
  /\ clause \in SlotStates
  /\ sub_compiles = <<>>
  /\ sub_default = TRUE
  /\ callbacks = <<>>
  /\ alias = <<>>
  /\ aliasIndex = 1
  /\ compiled = <<>>
  /\ cached = <<>>
  /\ stack = <<>>
  /\ trs = <<>>
  /\ ret = <<>>
  /\ phase = "idle"
  /\ err = ""
  /\ calls = 0
  /\ fresh = TRUE
  /\ cur = NoCall
  /\ prev = NoCall
  /\ last = NoVisit
  /\ nodes = <<>>
  /\ op = NoOp
  /\ other = NoThread
  /\ execution = NoExecution
  /\ resultFrame = NoFrame

SlotCall(kind, arg) ==
  [kind |-> kind, node |-> arg, pre |-> clause, promos |-> 0, again |-> FALSE]

(* to_sql(): the text is returned and _re_init() resets the slots *)
ToSqlCall ==
  /\ calls < MaxSlotCalls
  /\ calls' = calls + 1
  /\ ret' = ToSql(clause)
  /\ clause' = ReInit
  /\ err' = ""
  /\ last' = SlotCall("to_sql", <<>>)
  /\ UNCHANGED <<sub_compiles, sub_default, callbacks, alias, aliasIndex, compiled,
                 cached, stack, trs, phase, fresh, cur, prev>>
  /\ UNCHANGED exprVars

(* add_having_clause(expr, text) *)
AddHavingCall(text) ==
  /\ calls < MaxSlotCalls
  /\ calls' = calls + 1
  /\ LET m == AddHavingClause(M0, Coll(<<"groupby">>), text)
     IN Store(m) /\ err' = m.err
  /\ last' = SlotCall("add_having", text)
  /\ UNCHANGED <<sub_default, callbacks, cached, stack, trs, ret, phase, fresh, cur,
                 prev>>
  /\ UNCHANGED exprVars

(* sub_sql_to_from_clause(expr) *)
PromoteCall ==
  /\ calls < MaxSlotCalls
  /\ calls' = calls + 1
  /\ LET m == SubSqlToFromClause(M0, Coll(<<"filter">>))
     IN Store(m) /\ err' = m.err
  /\ last' = SlotCall("promote", <<>>)
  /\ UNCHANGED <<sub_default, callbacks, cached, stack, trs, ret, phase, fresh, cur,
                 prev>>
  /\ UNCHANGED exprVars

(* add_from_clause(expr, text) *)
AddFromCall(text) ==
  /\ calls < MaxSlotCalls
  /\ calls' = calls + 1
  /\ LET m == AddFromClause(M0, Coll(<<>>), text)
     IN Store(m) /\ err' = m.err
  /\ last' = SlotCall("add_from", text)
  /\ UNCHANGED <<sub_default, callbacks, cached, stack, trs, ret, phase, fresh, cur,
                 prev>>
  /\ UNCHANGED exprVars

SlotNext ==
  \/ ToSqlCall
  \/ \E text \in {<<"h1">>, <<"h2">>} : AddHavingCall(text)
  \/ PromoteCall
  \/ \E text \in {<<"frm">>, <<"frm2">>} : AddFromCall(text)

SlotSpec == SlotInit /\ [][SlotNext]_vars

(* ---------------- typed expressions: rename and astype ---------------- *)

MaxExprCalls == 3

Names == {<<"c">>, <<"d">>}

DataTypes == {"int64", "float64", "string", "datetime"}

(* a typed expression: _name, _source_name, the declared and the source
   type, and _input (the index of a typed expression, <<"T">> for the
   collection of a column, None for a scalar value) *)
ColumnC ==
  [cls |-> "Column", name |-> <<"c">>, source_name |-> <<"c">>, dtype |-> "int64",
   source_dtype |-> "int64", input |-> <<"T">>]

ScalarV ==
  [cls |-> "Scalar", name |-> None, source_name |-> None, dtype |-> "int64",
   source_dtype |-> "int64", input |-> None]

CastClasses == {"AsTypedSequenceExpr", "AsTypedScalar"}

(* the name property: a cast node without a name of its own has its input's *)
RECURSIVE NameOf(_, _)
NameOf(heap, i) ==
  IF heap[i].cls \in CastClasses /\ heap[i].name = None
  THEN NameOf(heap, heap[i].input[1]) ELSE heap[i].name

RECURSIVE SourceNameOf(_, _)
SourceNameOf(heap, i) ==
  IF heap[i].cls \in CastClasses /\ heap[i].source_name = None
  THEN SourceNameOf(heap, heap[i].input[1]) ELSE heap[i].source_name

(* mutant: the receiver is renamed in place *)
RenameInPlace(heap, i, new_name) ==
  [heap |-> [heap EXCEPT ![i].name = new_name], result |-> i]

(* TypedExpr.rename: the new node is built from the receiver's attributes *)
Rename(heap, i, new_name) ==
  LET self == heap[i]
      new_sequence == [cls |-> self.cls, name |-> new_name,
                       source_name |-> self.source_name, dtype |-> self.dtype,
                       source_dtype |-> self.source_dtype, input |-> self.input]
  IN IF new_name = self.name THEN [heap |-> heap, result |-> i]
     ELSE [heap |-> Append(heap, new_sequence), result |-> Len(heap) + 1]

(* SequenceExpr.astype and Scalar.astype; the constructor leaves _name and
   _source_name of the cast node None *)
AsType(heap, i, data_type) ==
  LET self == heap[i]
      new_sequence == [cls |-> IF self.cls \in {"Scalar", "AsTypedScalar"}
                               THEN "AsTypedScalar" ELSE "AsTypedSequenceExpr",
                       name |-> None, source_name |-> None, dtype |-> data_type,
                       source_dtype |-> self.source_dtype, input |-> <<i>>]
  IN IF data_type = self.dtype THEN [heap |-> heap, result |-> i]
     ELSE [heap |-> Append(heap, new_sequence), result |-> Len(heap) + 1]

ExprInit ==
  /\ clause = ReInit
  /\ sub_compiles = <<>>
  /\ sub_default = TRUE
  /\ callbacks = <<>>
  /\ alias = <<>>
  /\ aliasIndex = 1
  /\ compiled = <<>>
  /\ cached = <<>>
  /\ stack = <<>>
  /\ trs = <<>>
  /\ ret = <<>>
  /\ phase = "idle"
  /\ err = ""
  /\ calls = 0
  /\ fresh = TRUE
  /\ cur = NoCall
  /\ prev = NoCall
  /\ last = NoVisit
  /\ nodes = <<ColumnC, ScalarV>>
  /\ op = NoOp
  /\ other = NoThread
  /\ execution = NoExecution
  /\ resultFrame = NoFrame

compilerVars ==
  <<clause, sub_compiles, sub_default, callbacks, alias, aliasIndex, compiled,
    cached, stack, trs, ret, phase, err, fresh, cur, prev, last>>

(* expr.rename(new_name) *)
RenameCall(i, new_name) ==
  /\ calls < MaxExprCalls
  /\ calls' = calls + 1
  /\ LET r == Rename(nodes, i, new_name)
     IN /\ nodes' = r.heap
        /\ op' = [kind |-> "rename", recv |-> i, arg |-> new_name,
                  result |-> r.result, pre |-> nodes]
  /\ UNCHANGED <<compilerVars, other, execution, resultFrame>>

(* expr.astype(data_type) *)
AsTypeCall(i, data_type) ==
  /\ calls < MaxExprCalls
  /\ calls' = calls + 1
  /\ LET r == AsType(nodes, i, data_type)
     IN /\ nodes' = r.heap
        /\ op' = [kind |-> "astype", recv |-> i, arg |-> data_type,
                  result |-> r.result, pre |-> nodes]
  /\ UNCHANGED <<compilerVars, other, execution, resultFrame>>

(* isinstance(t, df_types.Integer) *)
IsInteger(t) == t = "int64"

(* types.df_type_to_odps_type *)
OdpsType(t) ==
  CASE t = "int64" -> "BIGINT" [] t = "float64" -> "DOUBLE" [] t = "string" -> "STRING"
    [] t = "datetime" -> "DATETIME"

(* OdpsSQLCompiler._cast *)
Cast(text, source_type, to_type) == <<"CAST", "(">> \o text \o <<"AS", OdpsType(to_type), ")">>

(* visit_cast: the text of a cast node from the text of its input; the
   source type is the node's own _source_data_type / _source_value_type *)
VisitCast(text, self) ==
  IF IsInteger(self.source_dtype) /\ self.dtype = "datetime"
  THEN <<"FROM_UNIXTIME", "(">> \o text \o <<")">>
  ELSE IF self.dtype # self.source_dtype THEN Cast(text, self.source_dtype, self.dtype)
  ELSE text

(* the fragment the context holds for a typed expression once the traversal
   has rendered it: columns by visit_column, scalars by visit_scalar, casts by
   visit_cast after their input *)
RECURSIVE ExprCompiled(_, _)
ExprCompiled(heap, i) ==
  IF heap[i].cls \in CastClasses
  THEN VisitCast(ExprCompiled(heap, heap[i].input[1]), heap[i])
  ELSE IF heap[i].cls = "Column" THEN <<"t1." \o (heap[i].source_name)[1]>>
  ELSE <<"1">>

(* the traversal of the expression i, ending with visit_cast(i) *)
VisitCastCall(i) ==
  /\ calls < MaxExprCalls
  /\ nodes[i].cls \in CastClasses
  /\ calls' = calls + 1
  /\ ret' = ExprCompiled(nodes, i)
  /\ op' = [kind |-> "visit_cast", recv |-> i, arg |-> "", result |-> i, pre |-> nodes]
  /\ UNCHANGED <<clause, sub_compiles, sub_default, callbacks, alias, aliasIndex,
                 compiled, cached, stack, trs, phase, err, fresh, cur, prev, last>>
  /\ UNCHANGED <<nodes, other, execution, resultFrame>>

ExprNext ==
  \/ \E i \in DOMAIN nodes, new_name \in Names : RenameCall(i, new_name)
  \/ \E i \in DOMAIN nodes, data_type \in DataTypes : AsTypeCall(i, data_type)
  \/ \E i \in DOMAIN nodes : VisitCastCall(i)

ExprSpec == ExprInit /\ [][ExprNext]_vars

(* ---------------- two threads, each with its own compiler ---------------- *)

MaxSwitches == 3

(* DAGs that share the join T.join(S), and a union *)
SharedRoots == {<<"join">>, <<"join", "join">>, <<"union">>}

ThreadState ==
  [clause |-> clause, sub_compiles |-> sub_compiles, sub_default |-> sub_default,
   callbacks |-> callbacks, alias |-> alias, aliasIndex |-> aliasIndex,
   compiled |-> compiled, stack |-> stack, trs |-> trs, ret |-> ret,
   phase |-> phase, err |-> err, calls |-> calls, fresh |-> fresh, cur |-> cur,
   prev |-> prev, last |-> last]

(* the scheduler takes the running thread off and puts the other one on; the
   DAG, with its _cached_args, is the one object both threads share *)
Switch ==
  /\ other.switches < MaxSwitches
  /\ other' = [st |-> ThreadState, switches |-> other.switches + 1]
  /\ clause' = other.st.clause
  /\ sub_compiles' = other.st.sub_compiles
  /\ sub_default' = other.st.sub_default
  /\ callbacks' = other.st.callbacks
  /\ alias' = other.st.alias
  /\ aliasIndex' = other.st.aliasIndex
  /\ compiled' = other.st.compiled
  /\ stack' = other.st.stack
  /\ trs' = other.st.trs
  /\ ret' = other.st.ret
  /\ phase' = other.st.phase
  /\ err' = other.st.err
  /\ calls' = other.st.calls
  /\ fresh' = other.st.fresh
  /\ cur' = other.st.cur
  /\ prev' = other.st.prev
  /\ last' = other.st.last
  /\ UNCHANGED <<cached, nodes, op, execution, resultFrame>>

(* each thread calls compile() once, on its own new compiler *)
ThreadCompile(r) == calls = 0 /\ Compile(r)

ConcNext ==
  \/ Switch
  \/ \E r \in SharedRoots : ThreadCompile(r)
  \/ FindRoot
  \/ CompileFirstBranch
  \/ StashFirstBranch
  \/ StashSecondBranch
  \/ StashPredicate
  \/ QueueCallback
  \/ HideChildren
  \/ AcceptRoot
  \/ VisitNode
  \/ Return
  \/ Cleanup

ConcSpec == Init /\ [][ConcNext]_vars

(* ---------------- Expr.execute ---------------- *)

MaxExecCalls == 5

MaxRows == 2

(* a result frame: the engine run that made it and its rows *)
ResultFrame(run, rows) == [run |-> run, rows |-> rows]

(* ResultFrame.__len__ *)
FrameLen(frame) == frame.rows

(* bool(frame): the class has __len__ and no __bool__, so an empty frame is
   false; None is false *)
Truthy(e) == e # None /\ FrameLen(e[1]) # 0

(* use_cache and self.__execution *)
CacheHit(use_cache, stored) == use_cache /\ Truthy(stored)

ExecInit ==
  /\ clause = ReInit
  /\ sub_compiles = <<>>
  /\ sub_default = TRUE
  /\ callbacks = <<>>
  /\ alias = <<>>
  /\ aliasIndex = 1
  /\ compiled = <<>>
  /\ cached = <<>>
  /\ stack = <<>>
  /\ trs = <<>>
  /\ ret = <<>>
  /\ phase = "idle"
  /\ err = ""
  /\ calls = 0
  /\ fresh = TRUE
  /\ cur = NoCall
  /\ prev = NoCall
  /\ last = NoVisit
  /\ nodes = <<>>
  /\ op = NoOp
  /\ other = NoThread
  /\ execution = NoExecution
  /\ resultFrame = NoFrame

(* expr.execute(use_cache); rows is the size of the frame the engine would
   return if it is invoked *)
Execute(use_cache, rows) ==
  /\ calls < MaxExecCalls
  /\ calls' = calls + 1
  /\ execution' =
       IF CacheHit(use_cache, execution.stored)
       THEN [execution EXCEPT !.use_cache = use_cache, !.pre = execution.stored,
                              !.returned = execution.stored]
       ELSE LET frame == <<ResultFrame(execution.runs + 1, rows)>>
            IN [stored |-> frame, runs |-> execution.runs + 1, use_cache |-> use_cache,
                pre |-> execution.stored, returned |-> frame]
  /\ UNCHANGED <<compilerVars, other, nodes, op, resultFrame>>

ExecNext == \E use_cache \in BOOLEAN, rows \in 0..MaxRows : Execute(use_cache, rows)

ExecSpec == ExecInit /\ [][ExecNext]_vars

(* ---------------- ResultFrame iteration ---------------- *)

MaxFrameCalls == 8

MaxFrameRows == 3

(* ResultFrame(data, pandas=False) without an index: the rows of data in
   order, _index = 0, 1, ..., _cursor = -1; a row is named by its index *)
NewFrame(n) == [NoFrame EXCEPT !.values = [i \in 1..n |-> i - 1]]

(* ResultFrame.__next__: row is the row returned, None for StopIteration *)
FrameNext(f) ==
  LET cursor == f.cursor + 1
  IN IF cursor < Len(f.values)
     THEN [f EXCEPT !.cursor = cursor, !.row = <<f.values[cursor + 1]>>]
     ELSE [f EXCEPT !.cursor = cursor, !.row = None]

FrameInit ==
  /\ clause = ReInit
  /\ sub_compiles = <<>>
  /\ sub_default = TRUE
  /\ callbacks = <<>>
  /\ alias = <<>>
  /\ aliasIndex = 1
  /\ compiled = <<>>
  /\ cached = <<>>
  /\ stack = <<>>
  /\ trs = <<>>
  /\ ret = <<>>
  /\ phase = "idle"
  /\ err = ""
  /\ calls = 0
  /\ fresh = TRUE
  /\ cur = NoCall
  /\ prev = NoCall
  /\ last = NoVisit
  /\ nodes = <<>>
  /\ op = NoOp
  /\ other = NoThread
  /\ execution = NoExecution
  /\ \E n \in 0..MaxFrameRows : resultFrame = NewFrame(n)

(* next(frame), called outside a loop over the frame *)
NextCall ==
  /\ calls < MaxFrameCalls
  /\ resultFrame.loop # "running"
  /\ calls' = calls + 1
  /\ resultFrame' = [FrameNext(resultFrame) EXCEPT !.loop = "", !.nexts = @ + 1]
  /\ UNCHANGED <<compilerVars, nodes, op, other, execution>>

(* `for row in frame` is entered: __iter__ makes a generator over the frame *)
IterStart ==
  /\ calls < MaxFrameCalls
  /\ resultFrame.loop # "running"
  /\ calls' = calls + 1
  /\ resultFrame' = [resultFrame EXCEPT !.loop = "running", !.out = <<>>, !.row = None]
  /\ UNCHANGED <<compilerVars, nodes, op, other, execution>>

(* one turn of the loop: the generator yields next(self), or returns when
   next(self) raises StopIteration *)
IterStep ==
  /\ resultFrame.loop = "running"
  /\ LET f == FrameNext(resultFrame)
     IN resultFrame' = IF f.row # None THEN [f EXCEPT !.out = @ \o f.row]
                       ELSE [f EXCEPT !.loop = "done", !.loops = @ + 1]
  /\ UNCHANGED <<compilerVars, calls, nodes, op, other, execution>>

FrameSpecNext == NextCall \/ IterStart \/ IterStep

FrameSpec == FrameInit /\ [][FrameSpecNext]_vars

(* ---------------- properties ---------------- *)

Contains(text, sub) ==
  \E i \in 0..(Len(text) - Len(sub)) : SubSeq(text, i + 1, i + Len(sub)) = sub

JoinUnionNodes == {n \in SpecialNodes : Kind(n) \in {"Join", "Union"}}

IsInNodes == {n \in SpecialNodes : Kind(n) = "IsIn"}

Exposes(n) ==
  \A i \in 1..Len(Attrs(n)) : ~GetArgFails(n, i) /\ GetArg(n, i) = Attrs(n)[i]

Returned == phase = "idle" /\ calls > 0

HasOp(r, ops) == \E i \in 1..Len(r) : r[i] \in ops

(* C1: after compile() has returned, normally or by raising, every Join and
   Union node exposes the children it was built with; no slot reads None *)
C1_JoinUnionRestored ==
  Returned => \A n \in JoinUnionNodes : Args(n) = Attrs(n) /\ Exposes(n)

C1_Witness ==
  /\ Returned /\ calls = 1
  /\ cur.root = <<"join", "sliceFrom">> /\ cur.out = "error"
  /\ Coll(<<"join">>) \in DOMAIN cached
  /\ Exposes(Coll(<<"join">>))

(* C2: after compile() has returned, every subquery IsIn node yields its
   original input from the input slot and its original values tuple from the
   values slot *)
C2_InRestored == Returned => \A n \in IsInNodes : Exposes(n)

DistinctUnions(r) ==
  {Coll(ch) : ch \in {x \in Prefixes(r) : x # <<>> /\ Last(x) = "unionD"}}

(* C3: compile() of a DAG with a distinct union raises CompileError and
   returns no SQL; when visit_union raises it the union is hidden with its
   restoration queued, and when compile() is left the union exposes its
   original children again *)
C3_DistinctUnionFails ==
  /\ (Returned /\ HasOp(cur.root, {"unionD"})) =>
       /\ cur.out = "error" /\ cur.sql = <<>> /\ cur.exc = "CompileError"
       /\ \A n \in DistinctUnions(cur.root) : Args(n) = Attrs(n)
  /\ (phase = "cleanup" /\ err = "CompileError" /\ last.kind = "Union") =>
       /\ AllNone(Args(last.node[1]))
       /\ \E i \in 1..Len(callbacks) :
            callbacks[i] = [node |-> last.node[1], args |-> Attrs(last.node[1])]

(* C4: a second compile() on the same compiler ends as the first one, made
   on the newly built compiler, did (stated for DAGs with a Join or Union) *)
C4_ReusedCompilerAsFresh ==
  (Returned /\ ~cur.fresh /\ prev.fresh /\ prev.root = cur.root
     /\ HasOp(cur.root, {"join", "union", "unionD"}) /\ ~HasOp(cur.root, {"filterIn"}))
  => cur.out = prev.out

(* C5: two compiles of the same DAG, each with a new compiler and a new
   context, yield the same SQL text *)
C5_Deterministic ==
  (Returned /\ cur.fresh /\ prev.fresh /\ prev.root = cur.root)
  => (cur.out = prev.out /\ cur.sql = prev.sql)

IsDerived(text) == Len(text) >= 3 /\ text[1] = "(" /\ text[Len(text) - 1] = ")"

(* every slot set on the level pre is in the text *)
HoldsLevel(text, pre) ==
  /\ pre.select_clause # None => Contains(text, <<"SELECT">> \o pre.select_clause)
  /\ pre.from_clause # None => Contains(text, <<"FROM">> \o pre.from_clause)
  /\ pre.where_clause # None => Contains(text, <<"WHERE">> \o pre.where_clause)
  /\ pre.group_by_clause # None => Contains(text, <<"GROUP BY">> \o pre.group_by_clause)
  /\ pre.having_clause # None => Contains(text, <<"HAVING">> \o pre.having_clause)
  /\ pre.order_by_clause # None => Contains(text, <<"ORDER BY">> \o pre.order_by_clause)
  /\ pre.limit # None => Contains(text, <<"LIMIT", ToString(pre.limit[1])>>)

Rendered == phase = "run" /\ last.kind # ""

(* C6: an add_select/where/order_by_clause that finds its slot set promotes
   the level: the from-clause becomes a derived table holding the previous
   contents, the written slot holds the new text, every other slot is unset *)
C6_PromotionOnSetSlot ==
  /\ (Rendered /\ last.kind = "Project" /\ last.pre.select_clause # None) =>
       /\ IsDerived(clause.from_clause) /\ HoldsLevel(clause.from_clause, last.pre)
       /\ clause = [ReInit EXCEPT !.from_clause = clause.from_clause,
                                  !.select_clause = compiled[last.node[1]]]
  /\ (Rendered /\ last.kind = "Filter" /\ last.pre.where_clause # None
        /\ last.pre.group_by_clause = None /\ Kind(Input(last.node[1])) # "Project") =>
       /\ IsDerived(clause.from_clause) /\ HoldsLevel(clause.from_clause, last.pre)
       /\ clause = [ReInit EXCEPT !.from_clause = clause.from_clause,
                                  !.where_clause = compiled[last.node[1]]]
  /\ (Rendered /\ last.kind = "Sort" /\ last.pre.order_by_clause # None) =>
       /\ IsDerived(clause.from_clause) /\ HoldsLevel(clause.from_clause, last.pre)
       /\ clause = [ReInit EXCEPT !.from_clause = clause.from_clause,
                                  !.order_by_clause = clause.order_by_clause]
       /\ clause.order_by_clause # None
  /\ (Rendered /\ last.kind = "GroupBy" /\ last.pre.select_clause # None) =>
       /\ IsDerived(clause.from_clause) /\ HoldsLevel(clause.from_clause, last.pre)
       /\ clause = [ReInit EXCEPT !.from_clause = clause.from_clause,
                                  !.select_clause = clause.select_clause,
                                  !.group_by_clause = clause.group_by_clause]

(* C7: a slice rendered on a level whose limit is set promotes the level:
   the earlier limit is inside the derived table, the new one outside *)
C7_LimitOncePerLevel ==
  (Rendered /\ last.kind = "Slice" /\ last.pre.limit # None) =>
    /\ last.promos = 1
    /\ IsDerived(clause.from_clause)
    /\ Contains(clause.from_clause, <<"LIMIT", ToString(last.pre.limit[1])>>)
    /\ clause.limit = SliceIndexes(last.node[1])[2]

FieldsOf(n) ==
  IF Args(n)[5].t = "none" THEN Args(n)[2].v \o Args(n)[4].v ELSE Args(n)[5].v

(* C8: when a group-by over a group-by is rendered, exactly one promotion
   takes place: the first group-by's SELECT and GROUP BY become the derived
   table of the from-clause, then the second's select and group-by are set *)
C8_SecondGroupByPromotes ==
  (Rendered /\ last.kind = "GroupBy" /\ Kind(Input(last.node[1])) = "GroupBy") =>
    /\ last.pre.select_clause # None /\ last.pre.group_by_clause # None
    /\ last.promos = 1
    /\ clause.from_clause = Derived(ToSql(last.pre), Last(clause.from_clause))
    /\ Contains(clause.from_clause, <<"SELECT">> \o last.pre.select_clause)
    /\ Contains(clause.from_clause, <<"GROUP BY">> \o last.pre.group_by_clause)
    /\ clause.select_clause = SelectFields([compiled |-> compiled], FieldsOf(last.node[1]))
    /\ clause.group_by_clause = PlainFields([compiled |-> compiled], Args(last.node[1])[2].v)
    /\ clause.where_clause = None /\ clause.order_by_clause = None /\ clause.limit = None

C8_Witness ==
  /\ Rendered /\ last.kind = "GroupBy" /\ Kind(Input(last.node[1])) = "GroupBy"
  /\ last.promos = 1 /\ Contains(clause.from_clause, <<"GROUP BY">>)

(* C9: rendering a filter promotes at most once; when the group-by slot is
   set or the input is a projection the level is promoted before the WHERE
   is installed, so the WHERE never shares a level with that GROUP BY or
   SELECT; the group-by slot is set whenever the input is a group-by *)
C9_FilterNeverSharesLevel ==
  (Rendered /\ last.kind = "Filter") =>
    /\ last.promos <= 1
    /\ Kind(Input(last.node[1])) = "GroupBy" => last.pre.group_by_clause # None
    /\ (last.pre.group_by_clause # None \/ Kind(Input(last.node[1])) = "Project") =>
         /\ last.promos = 1
         /\ clause = [ReInit EXCEPT
              !.from_clause = Derived(ToSql(last.pre), Last(clause.from_clause)),
              !.where_clause = compiled[last.node[1]]]

C9_Witness ==
  /\ Rendered /\ last.kind = "Filter" /\ Kind(Input(last.node[1])) = "GroupBy"
  /\ last.promos = 1 /\ clause.where_clause # None /\ clause.group_by_clause = None
  /\ Contains(clause.from_clause, <<"GROUP BY">>)

(* C10 as stated: Source -> filter -> project compiles to the nested
   SELECT cols FROM (SELECT * FROM T WHERE pred) alias *)
C10_FilterProjectNested ==
  (Returned /\ cur.root = <<"filter", "project">> /\ cur.clean /\ cur.out = "sql") =>
    /\ Len(cur.sql) = 13
    /\ cur.sql[1] = "SELECT" /\ cur.sql[3] = "FROM" /\ cur.sql[4] = "("
    /\ SubSeq(cur.sql, 5, 8) = <<"SELECT", "*", "FROM", "p.T">>
    /\ cur.sql[10] = "WHERE" /\ cur.sql[12] = ")"

(* C10 amended: on a compiler whose slots are unset, Source -> filter ->
   project compiles to one flat level SELECT cols FROM T alias WHERE pred;
   a projection rendered on a level whose select slot is unset installs its
   select on that level and promotes nothing *)
C10_FilterProjectFlat ==
  /\ (Returned /\ cur.root = <<"filter", "project">> /\ cur.clean) =>
       /\ cur.out = "sql"
       /\ Len(cur.sql) = 7
       /\ cur.sql[1] = "SELECT" /\ cur.sql[2] # "*" /\ cur.sql[3] = "FROM"
       /\ cur.sql[4] = "p.T" /\ cur.sql[6] = "WHERE"
       /\ "(" \notin Range(cur.sql)
  /\ (Rendered /\ last.kind = "Project" /\ last.pre.select_clause = None) =>
       /\ last.promos = 0
       /\ clause = [last.pre EXCEPT !.select_clause = compiled[last.node[1]]]

C10_Witness ==
  /\ Returned /\ cur.root = <<"filter", "project">> /\ cur.clean /\ cur.out = "sql"
  /\ Contains(cur.sql, <<"WHERE">>) /\ "(" \notin Range(cur.sql)

(* C11: T[T.id > 0][['id', 'name']], with the projected columns lifted to
   T, compiles on a new compiler to the one flat level
   SELECT t1.c FROM p.T t1 WHERE t1.c: no derived table, alias t1 for T *)
C11_FilterProjectScenario ==
  (Returned /\ cur.root = <<"filter", "projectL">> /\ cur.fresh) =>
    /\ cur.out = "sql"
    /\ cur.sql = <<"SELECT", "t1.c", "FROM", "p.T", "t1", "WHERE", "t1.c">>

C11_Witness ==
  /\ Returned /\ cur.root = <<"filter", "projectL">> /\ cur.fresh
  /\ cur.out = "sql" /\ Len(cur.sql) = 7

EndsWith(text, suffix) ==
  /\ Len(text) >= Len(suffix)
  /\ SubSeq(text, Len(text) - Len(suffix) + 1, Len(text)) = suffix

(* the text of the level rendered by the last to_sql or promotion *)
RenderedText ==
  IF last.kind = "to_sql" THEN ret
  ELSE SubSeq(clause.from_clause, 2, Len(clause.from_clause) - 2)

LevelRendered == last.kind \in {"to_sql", "promote"}

KeywordOrder ==
  <<"SELECT", "FROM", "ON", "WHERE", "GROUP BY", "HAVING", "ORDER BY", "LIMIT">>

Rank(k) == CHOOSE i \in 1..Len(KeywordOrder) : KeywordOrder[i] = k

IsKeyword(t) == t \in Range(KeywordOrder)

(* the tokens outside every parenthesis: those of the level itself *)
RECURSIVE TopLevel(_, _)
TopLevel(text, depth) ==
  IF text = <<>> THEN <<>>
  ELSE IF Head(text) = "(" THEN TopLevel(Tail(text), depth + 1)
  ELSE IF Head(text) = ")" THEN TopLevel(Tail(text), depth - 1)
  ELSE IF depth = 0 THEN <<Head(text)>> \o TopLevel(Tail(text), depth)
  ELSE TopLevel(Tail(text), depth)

LevelKeywords == SelectSeq(TopLevel(RenderedText, 0), IsKeyword)

Emitted(k) == k \in Range(LevelKeywords)

(* C12: a level rendered with order-by set and no limit ends with
   LIMIT 10000; a level without order-by and without limit has no LIMIT *)
C12_DefaultLimit ==
  (LevelRendered /\ last.pre.limit = None) =>
    IF last.pre.order_by_clause # None
    THEN EndsWith(RenderedText, <<"LIMIT", ToString(GROUPBY_LIMIT)>>)
    ELSE ~Emitted("LIMIT")

C12_Witness ==
  /\ last.kind = "to_sql" /\ last.pre.limit = None /\ last.pre.order_by_clause # None
  /\ EndsWith(ret, <<"LIMIT", "10000">>)

(* C13: to_sql writes SELECT, FROM, ON, WHERE, GROUP BY, HAVING, ORDER BY,
   LIMIT in this order, each at most once; SELECT (a star by default) and FROM
   always, every other line exactly when its slot is set, HAVING only with
   GROUP BY *)
C13_FixedClauseOrder ==
  LevelRendered =>
    /\ \A i \in 1..(Len(LevelKeywords) - 1) :
         Rank(LevelKeywords[i]) < Rank(LevelKeywords[i + 1])
    /\ RenderedText[1] = "SELECT" /\ Emitted("FROM")
    /\ last.pre.select_clause = None => RenderedText[2] = "*"
    /\ Emitted("ON") <=> last.pre.join_predicates # None
    /\ Emitted("WHERE") <=> last.pre.where_clause # None
    /\ Emitted("GROUP BY") <=> last.pre.group_by_clause # None
    /\ Emitted("HAVING") <=>
         (last.pre.having_clause # None /\ last.pre.group_by_clause # None)
    /\ Emitted("ORDER BY") <=> last.pre.order_by_clause # None
    /\ Emitted("LIMIT") <=>
         (last.pre.limit # None \/ last.pre.order_by_clause # None)

C13_Witness ==
  /\ last.kind = "to_sql"
  /\ LevelKeywords = KeywordOrder
  /\ last.pre.having_clause # None

Unset(cl, slots) == \A f \in slots : cl[f] = None

(* C14: right after to_sql every slot and the limit are unset; right after
   a promotion the from-clause holds the derived table and all else is unset *)
C14_SlotsResetAfterRender ==
  /\ last.kind = "to_sql" => Unset(clause, DOMAIN clause)
  /\ last.kind = "promote" =>
       /\ IsDerived(clause.from_clause)
       /\ Unset(clause, DOMAIN clause \ {"from_clause"})

C14_Witness ==
  /\ last.kind = "to_sql" /\ Unset(clause, DOMAIN clause)
  /\ \A f \in DOMAIN clause : last.pre[f] # None

(* C15: add_having_clause with the value already set changes no slot; with
   another value it fails an assertion and the having slot keeps the earlier
   value *)
C15_HavingIdempotent ==
  (last.kind = "add_having" /\ last.pre.having_clause # None) =>
    IF last.node = last.pre.having_clause
    THEN clause = last.pre /\ err = ""
    ELSE err = "AssertionError" /\ clause = last.pre

C15_Witness ==
  /\ last.kind = "add_having" /\ last.pre.having_clause = <<"h1">>
  /\ last.node = <<"h2">> /\ err = "AssertionError"
  /\ clause.having_clause = <<"h1">>

(* a text that is one parenthesized derived table followed by its alias *)
WholeDerived(text) == Len(text) >= 3 /\ text[1] = "(" /\ Len(TopLevel(text, 0)) = 1

(* C16 as stated: each side stashed for a join, left and right alike, is
   bare exactly when the side is a source table or a join, and a derived
   table with an alias otherwise *)
C16_JoinSidesAlike ==
  \A e \in DOMAIN sub_compiles :
    Kind(e) = "Join" =>
      \A i \in 1..Len(sub_compiles[e]) :
        i <= 2 => (Kind(Attrs(e)[i].v[1]) \in {"Source", "Join"}
                    <=> ~WholeDerived(sub_compiles[e][i]))

(* C16 amended: the left side of a join is bare exactly when it is a source
   table or a join, the right side exactly when it is a source table; every
   other side, a right-side join included, is a derived table with an alias *)
C16_JoinSides ==
  \A e \in DOMAIN sub_compiles :
    Kind(e) = "Join" =>
      /\ Len(sub_compiles[e]) >= 1 =>
           (Kind(Attrs(e)[1].v[1]) \in {"Source", "Join"}
             <=> ~WholeDerived(sub_compiles[e][1]))
      /\ Len(sub_compiles[e]) >= 2 =>
           (Kind(Attrs(e)[2].v[1]) = "Source" <=> ~WholeDerived(sub_compiles[e][2]))

C16_Witness ==
  \E e \in DOMAIN sub_compiles :
    /\ Kind(e) = "Join" /\ Len(sub_compiles[e]) = 3
    /\ Kind(Attrs(e)[2].v[1]) = "Join"
    /\ WholeDerived(sub_compiles[e][2])
    /\ Contains(sub_compiles[e][2], <<"INNER", "JOIN">>)

BadDdofOps == {"groupbyVar1", "groupbyStd1"}

(* C17: a variance or standard deviation with ddof other than 0 raises
   CompileError when rendered, no fragment is ever recorded for it and
   compile() returns no SQL; with ddof 0 it is rendered as FUNC(arg) *)
C17_DdofRejected ==
  /\ \A n \in DOMAIN compiled : Kind(n) = "Reduction" => Ddof(n) = 0
  /\ (last.kind = "Reduction" /\ Ddof(last.node[1]) # 0) =>
       (phase = "cleanup" /\ err = "CompileError")
  /\ (Returned /\ HasOp(cur.root, BadDdofOps)) =>
       (cur.out = "error" /\ cur.exc = "CompileError" /\ cur.sql = <<>>)
  /\ (Rendered /\ last.kind = "Reduction" /\ ~CountsRows(last.node[1])) =>
       compiled[last.node[1]] =
         <<RedFunc[last.node[1].k]>> \o compiled[Input(last.node[1])] \o <<")">>
  /\ (Returned /\ cur.root = <<"groupbyVar0">>) =>
       (cur.out = "sql" /\ Contains(cur.sql, <<"VAR(">>))

C17_Witness ==
  /\ Returned /\ cur.root = <<"groupbyVar1">> /\ cur.exc = "CompileError"
  /\ RedOf("var1", <<>>) \notin DOMAIN compiled
  /\ Col(<<>>) \in DOMAIN compiled

(* C18: in a compile() call on a new compiler and context no renderer runs
   on a node whose fragment the context already holds, so every node is
   rendered at most once *)
C18_RenderedOnce == (last.kind # "" /\ cur.fresh /\ calls > 0) => ~last.again

Promoted == Rendered /\ last.promos >= 1 /\ IsDerived(clause.from_clause)

(* C19 as stated: the alias of a derived table made by promotion is new, it
   is not an alias used inside the derived table *)
C19_PromotionAliasFresh ==
  Promoted =>
    Last(clause.from_clause)
      \notin Range(SubSeq(clause.from_clause, 2, Len(clause.from_clause) - 2))

(* C19 amended: the alias of a derived table made by promotion is the alias
   the context maps the lifted collection to (the input of the rendered node
   with filters, sorts and slices skipped); it is new only when that
   collection had none *)
C19_PromotionAliasOfLifted ==
  Promoted =>
    /\ Lift(Input(last.node[1])) \in DOMAIN alias
    /\ Last(clause.from_clause) = alias[Lift(Input(last.node[1]))]

C19_Witness ==
  /\ Promoted /\ last.kind = "Filter" /\ cur.root = <<"filter", "filter">>
  /\ cur.fresh
  /\ Last(clause.from_clause) = "t1"
  /\ Contains(clause.from_clause, <<"p.T", "t1">>)

(* C20: when visit_union has rendered a union, the alias that closes its
   derived table is the alias the context maps the union node to, so a later
   lookup of the union node (by a column of the union) gives that alias *)
C20_UnionAliasStable ==
  (Rendered /\ last.kind = "Union" /\ IsDerived(clause.from_clause)) =>
    /\ last.node[1] \in DOMAIN alias
    /\ alias[last.node[1]] = Last(clause.from_clause)

(* C21 as stated: T.groupby(key).agg(count(T.c)) compiles to one flat level
   SELECT key, COUNT(1) AS name FROM T GROUP BY key *)
C21_GroupByCountOne ==
  (Returned /\ cur.root = <<"groupbyCnt">> /\ cur.fresh) =>
    /\ cur.out = "sql"
    /\ cur.sql = <<"SELECT", "t1.c", ",", "COUNT(1)", "AS", "c_count",
                   "FROM", "p.T", "t1", "GROUP BY", "t1.c">>

(* C21 amended: a group-by with a count compiles on a new compiler to one
   flat level, keys then aggregates in the select, the keys in the group-by,
   no derived table; the count of a column renders as COUNT(column), and
   only the count of a collection renders as COUNT(1) *)
C21_GroupByCount ==
  /\ (Returned /\ cur.root = <<"groupbyCnt">> /\ cur.fresh) =>
       /\ cur.out = "sql"
       /\ cur.sql = <<"SELECT", "t1.c", ",", "COUNT(", "t1.c", ")", "AS", "c_count",
                      "FROM", "p.T", "t1", "GROUP BY", "t1.c">>
  /\ (Returned /\ cur.root = <<"groupbyCntT">> /\ cur.fresh) =>
       /\ cur.out = "sql"
       /\ cur.sql = <<"SELECT", "t1.c", ",", "COUNT(1)", "AS", "c_count",
                      "FROM", "p.T", "t1", "GROUP BY", "t1.c">>

C21_Witness ==
  /\ Returned /\ cur.root = <<"groupbyCnt">> /\ cur.fresh /\ cur.out = "sql"
  /\ Contains(cur.sql, <<"COUNT(", "t1.c", ")">>)
  /\ Contains(cur.sql, <<"GROUP BY", "t1.c">>)

(* the receiver reads as before the call: declared type, source type, name
   and source name *)
ReceiverKept ==
  /\ nodes[op.recv].dtype = op.pre[op.recv].dtype
  /\ nodes[op.recv].source_dtype = op.pre[op.recv].source_dtype
  /\ NameOf(nodes, op.recv) = NameOf(op.pre, op.recv)
  /\ SourceNameOf(nodes, op.recv) = SourceNameOf(op.pre, op.recv)

IsNewNode == op.result \notin DOMAIN op.pre /\ op.result \in DOMAIN nodes

CastIsNew ==
  IF op.arg = op.pre[op.recv].dtype THEN op.result = op.recv
  ELSE IsNewNode /\ nodes[op.result].input = <<op.recv>>
                 /\ nodes[op.result].dtype = op.arg

(* C22: rename and astype leave the receiver as it was; astype to another
   type returns a new cast node over the receiver and rename to another name
   a new node with the receiver's source name; astype to the receiver's type
   and rename to the name the receiver holds return the receiver itself *)
C22_RenameCastNewNode ==
  /\ op.kind # "" =>
       /\ ReceiverKept
       /\ \A k \in DOMAIN op.pre : nodes[k] = op.pre[k]
  /\ op.kind = "astype" => CastIsNew
  /\ op.kind = "rename" =>
       IF op.arg = op.pre[op.recv].name THEN op.result = op.recv
       ELSE /\ IsNewNode /\ NameOf(nodes, op.result) = op.arg
            /\ SourceNameOf(nodes, op.result) = SourceNameOf(op.pre, op.recv)

C22_Witness ==
  /\ op.kind = "rename" /\ op.pre[op.recv].cls = "AsTypedSequenceExpr"
  /\ op.arg = <<"d">> /\ IsNewNode
  /\ nodes[op.result].name = <<"d">> /\ nodes[op.result].input = op.pre[op.recv].input
  /\ NameOf(nodes, op.recv) = <<"c">> /\ SourceNameOf(nodes, op.result) = <<"c">>
  /\ nodes[op.recv].dtype = "float64" /\ nodes[op.recv].source_dtype = "int64"

CallbackNodes(cbs) == {cbs[i].node : i \in 1..Len(cbs)}

(* the running call renders a Join or Union that the other thread's call has
   hidden and that the running call has not hidden itself *)
HiddenByOther ==
  /\ last.kind \in {"Join", "Union"}
  /\ AllNone(Args(last.node[1]))
  /\ last.node[1] \in CallbackNodes(other.st.callbacks)
  /\ last.node[1] \notin CallbackNodes(callbacks)

(* C23: a call that reaches a shared Join or Union while the other call has
   its children hidden has not sub-compiled it: it has queued no restoration
   for the node and its own stash holds no branch text for it, so its
   renderer fails and compile() raises *)
C23_SharedNodeUnsafe ==
  HiddenByOther =>
    /\ last.node[1] \in DOMAIN sub_compiles => sub_compiles[last.node[1]] = <<>>
    /\ phase = "cleanup" /\ err = "ValueError"
    /\ last.node[1] \notin DOMAIN compiled

C23_Witness ==
  /\ HiddenByOther /\ last.node[1] = Coll(<<"join">>)
  /\ cur.root = <<"join">> /\ other.st.cur.root = <<"join", "join">>
  /\ other.st.phase = "run"
  /\ err = "ValueError"

(* C24: an execute with use_cache on an expression that holds a stored
   result returns that result and makes no engine call, whatever the number
   of rows of the stored frame *)
C24_CachedExecute ==
  (calls > 0 /\ execution.use_cache /\ execution.pre # None) =>
    /\ execution.returned = execution.pre
    /\ execution.stored = execution.pre
    /\ execution.runs = execution.pre[1].run

HiddenNodes == {n \in DOMAIN cached : AllNone(cached[n])}

(* C25: at every point of compile(), also while an exception unwinds, every
   node whose children are hidden has a restoration callback in the queue *)
C25_HiddenHasCallback ==
  phase \in {"run", "cleanup"} => HiddenNodes \subseteq CallbackNodes(callbacks)

C25_Witness ==
  /\ phase = "cleanup" /\ err = "NotImplementedError"
  /\ cur.root = <<"join", "sliceFrom", "join">>
  /\ HiddenNodes = {Coll(<<"join">>)}
  /\ Coll(<<"join">>) \in CallbackNodes(callbacks)

(* C26: the SQL a compile() call on a new compiler returns never has an unset
   FROM: the from-clause installed by rendering a Join or Union root is
   still on the level when the level is rendered, whatever other roots were
   sub-compiled in between *)
C26_FromSurvivesSubCompile ==
  (Returned /\ cur.fresh /\ cur.out = "sql") => ~Contains(cur.sql, <<"FROM", "None">>)

(* C27: a filter, group-by or sort rendered on a level that already holds a
   LIMIT or an ORDER BY (set by a slice or sort applied before it) promotes
   that level: the earlier LIMIT and ORDER BY are inside the derived table
   and not on the level that receives the new WHERE, GROUP BY or ORDER BY *)
C27_OperatorOrderKept ==
  (Rendered /\ last.kind \in {"Filter", "GroupBy", "Sort"}
     /\ (last.pre.limit # None \/ last.pre.order_by_clause # None)) =>
    /\ last.promos >= 1
    /\ IsDerived(clause.from_clause)
    /\ clause.limit = None
    /\ last.kind # "Sort" => clause.order_by_clause = None

(* C28: a level rendered with its limit set to n, 0 included, ends with
   LIMIT n, with or without an order-by on the level *)
C28_ExplicitLimitKept ==
  (LevelRendered /\ last.pre.limit # None) =>
    EndsWith(RenderedText, <<"LIMIT", ToString(last.pre.limit[1])>>)

StashOf(n) == IF n \in DOMAIN sub_compiles THEN sub_compiles[n] ELSE <<>>

BranchOf(n, i) == Attrs(n)[i].v[1]

(* C29: whenever visit_join has run for a node the stash holds three texts
   for it, left, right, predicate in this order, and whenever visit_union
   has run it holds two, left then right *)
C29_StashCompleteAtVisit ==
  /\ last.kind = "Join" =>
       /\ Len(StashOf(last.node[1])) = 3
       /\ StashOf(last.node[1])[3] = compiled[BranchOf(last.node[1], 3)]
       /\ \A i \in 1..2 :
            IF IsSourceTable(BranchOf(last.node[1], i))
            THEN StashOf(last.node[1])[i] = compiled[BranchOf(last.node[1], i)]
            ELSE Last(StashOf(last.node[1])[i]) = alias[BranchOf(last.node[1], i)]
                 \/ Kind(BranchOf(last.node[1], i)) = "Join"
  /\ last.kind = "Union" =>
       /\ Len(StashOf(last.node[1])) = 2
       /\ Contains(StashOf(last.node[1])[1], <<"p.T">>)
       /\ StashOf(last.node[1])[2] = <<"SELECT", "*", "FROM", "p.S", alias[TableS]>>

C29_Witness ==
  /\ Rendered /\ last.kind = "Join" /\ last.node[1] = Coll(<<"join", "join">>)
  /\ Len(StashOf(last.node[1])) = 3
  /\ Contains(StashOf(last.node[1])[1], <<"INNER", "JOIN">>)
  /\ StashOf(last.node[1])[2] = <<"p.S", alias[TableS]>>

(* no node has two callbacks in the queue *)
OverriddenOnce ==
  \A i, j \in 1..Len(callbacks) : callbacks[i].node = callbacks[j].node => i = j

(* C30: within one compile() call no node is hidden more than once, and
   every queued callback holds the children its node was built with, so
   running the queue in any order restores the same DAG *)
C30_OverriddenOnce ==
  phase \in {"run", "cleanup"} =>
    /\ OverriddenOnce
    /\ \A i \in 1..Len(callbacks) : callbacks[i].args = Attrs(callbacks[i].node)


(* C31: a promotion loses no clause: every slot set on the promoted level,
   order-by and limit included, is in the text of the derived table, and a
   level with an order-by and no limit carries LIMIT 10000 inside the table *)
C31_PromotionKeepsClauses ==
  Promoted =>
    /\ HoldsLevel(clause.from_clause, last.pre)
    /\ (last.pre.order_by_clause # None /\ last.pre.limit = None) =>
         Contains(clause.from_clause,
                  <<"ORDER BY">> \o last.pre.order_by_clause
                  \o <<"LIMIT", ToString(GROUPBY_LIMIT)>>)


(* C32: after compile() has returned by raising, every clause slot and the
   limit are unset and the callback queue is empty *)
C32_NoResidueAfterRaise ==
  (Returned /\ cur.out = "error") => (clause = ReInit /\ callbacks = <<>>)


(* C33: add_from_clause on a level whose from-clause is set changes no slot;
   on a level whose from-clause is unset it sets the from-clause and changes
   no other slot *)
C33_AddFromOnlyWhenUnset ==
  last.kind = "add_from" =>
    clause = IF last.pre.from_clause # None THEN last.pre
             ELSE [last.pre EXCEPT !.from_clause = last.node]

C33_Witness ==
  /\ last.kind = "add_from"
  /\ last.pre.from_clause = <<"frm">> /\ last.node = <<"frm2">>
  /\ last.pre.select_clause # None /\ last.pre.limit = <<0>>
  /\ clause = last.pre


(* C34: rendering a slice with a start or a step raises NotImplementedError
   and leaves the limit and every clause slot as they were; rendering a slice
   with only a stop sets the limit to the stop and changes no other slot *)
C34_SliceFailsBeforeLimit ==
  (phase \in {"run", "cleanup"} /\ last.kind = "Slice") =>
    LET sliced == SliceIndexes(last.node[1])
    IN IF sliced[1] # None \/ sliced[3] # None
       THEN err = "NotImplementedError" /\ clause = last.pre
       ELSE err = "" /\ clause = [last.pre EXCEPT !.limit = sliced[2]]

C34_Witness ==
  /\ phase = "cleanup" /\ last.kind = "Slice" /\ err = "NotImplementedError"
  /\ SliceIndexes(last.node[1])[3] # None
  /\ last.pre.limit = <<5>> /\ clause.limit = <<5>>
  /\ clause.from_clause # None


(* the override of n answers every argument slot of n with None *)
ReadsNone(ca, n) ==
  /\ Len(ca[n]) = Len(Attrs(n))
  /\ \A i \in 1..Len(Attrs(n)) : ca[n][i] = NoneSlot

OverrideApplied == phase = "run" /\ Top.type \in {"join", "union", "in"} /\ Top.pc = "hide"

(* C35: while the children of a node are hidden, a read of any argument slot
   through _get_arg returns None and does not fail, and the stored attributes
   are the ones the node was built with; the step that applies the override
   changes the override of that node and of no other node *)
C35_OverrideOnlyHides ==
  /\ [](\A n \in HiddenNodes :
          /\ ReadsNone(cached, n)
          /\ \A i \in 1..Len(Attrs(n)) : ~GetArgFails(n, i) /\ GetArg(n, i) = NoneSlot
          /\ Flatten(Attrs(n)) # <<>>)
  /\ [][OverrideApplied =>
          /\ ReadsNone(cached', Top.expr)
          /\ DOMAIN cached' = DOMAIN cached \cup {Top.expr}
          /\ \A x \in DOMAIN cached \ {Top.expr} : cached'[x] = cached[x]]_vars

C35_Witness ==
  /\ phase = "run" /\ cur.root = <<"join", "join">>
  /\ Coll(<<"join">>) \in HiddenNodes
  /\ Coll(<<"join", "join">>) \notin DOMAIN cached
  /\ GetArg(Coll(<<"join">>), 1) = NoneSlot
  /\ Attrs(Coll(<<"join">>))[1] = NodeSlot(Coll(<<>>))
  /\ Children(Coll(<<"join">>)) = <<>>


(* the text the claim gives a cast node: decided by the declared type of the
   node and the declared type of its immediate input *)
StepCast(text, self, input) ==
  IF IsInteger(input.dtype) /\ self.dtype = "datetime"
  THEN <<"FROM_UNIXTIME", "(">> \o text \o <<")">>
  ELSE IF self.dtype # input.dtype THEN Cast(text, input.dtype, self.dtype)
  ELSE text

(* C36: a cast node is rendered from its declared type and the declared type
   of its immediate input: FROM_UNIXTIME when the input is an integer and the
   target datetime, otherwise CAST when the two differ, no conversion when
   they are equal; the second cast of x.astype(a).astype(b) is decided by a *)
C36_CastFromInputType ==
  op.kind = "visit_cast" =>
    LET self == nodes[op.recv]
        input == self.input[1]
    IN ret = StepCast(ExprCompiled(nodes, input), self, nodes[input])


(* C37: every full iteration over a ResultFrame yields all rows of the frame
   in index order, whatever iterations and next() calls came before *)
C37_IterationRestartable ==
  resultFrame.loop = "done" => resultFrame.out = resultFrame.values

====
